---- MODULE Spec2Model ----
(***************************************************************************)
(* A model of the Smart-Money-Concept analysis engine, SMCAnalyzer, of      *)
(* src/src/services/smc.ts, together with the settings store it reads      *)
(* (getSettings / saveSettings of src/src/utils/positionSizing.ts).        *)
(*                                                                         *)
(* Numbers.  The engine computes on IEEE doubles.  Candle prices are       *)
(* integers here, and every quotient the code forms is kept as an exact    *)
(* fraction [num, den] and compared by cross-multiplication, with the      *)
(* JavaScript results of a division by zero (+Infinity, -Infinity, NaN)    *)
(* kept apart.  Prices the code derives by a decimal factor (1.005, 0.6,   *)
(* a Fibonacci ratio ...) are held in thousandths of a price unit          *)
(* ("milli").  Candle indices are the code's 0-based indices; the candle   *)
(* with index i is candles[i + 1].                                         *)
(***************************************************************************)
EXTENDS Integers, Sequences, FiniteSets, TLC

VARIABLES
    settings,   \* the stored user settings: [tradingProfile, debugMode]
    candles,    \* the caller's candle array handed to analyze
    timeframe,  \* the timeframe the caller analyses
    result,     \* what the last analyze call returned ([pending |-> TRUE] before any)
    previous,   \* what the call before it returned for the same inputs
    calls       \* how many analyze calls were made on the inputs as they stand

vars == <<settings, candles, timeframe, result, previous, calls>>

(***************************************************************************)
(* Arithmetic helpers                                                      *)
(***************************************************************************)
Abs(x) == IF x < 0 THEN -x ELSE x

Min2(a, b) == IF a <= b THEN a ELSE b

Max2(a, b) == IF a >= b THEN a ELSE b

\* The fraction n/d as the code's number n / d.
Frac(n, d) == [num |-> n, den |-> d]

\* JavaScript's  n/d > p/q  for q > 0: NaN (0/0) compares false, +Infinity true.
FracGt(r, p, q) ==
    IF r.den > 0 THEN r.num * q > p * r.den
    ELSE IF r.den < 0 THEN r.num * q < p * r.den
    ELSE r.num > 0

\* JavaScript's  n/d >= p/q  for q > 0.
FracGeq(r, p, q) ==
    IF r.den > 0 THEN r.num * q >= p * r.den
    ELSE IF r.den < 0 THEN r.num * q <= p * r.den
    ELSE r.num > 0

\* JavaScript's  n/d < p/q  for q > 0.
FracLt(r, p, q) ==
    IF r.den > 0 THEN r.num * q < p * r.den
    ELSE IF r.den < 0 THEN r.num * q > p * r.den
    ELSE r.num < 0

\* JavaScript's  n/d <= p/q  for q > 0.
FracLeq(r, p, q) ==
    IF r.den > 0 THEN r.num * q <= p * r.den
    ELSE IF r.den < 0 THEN r.num * q >= p * r.den
    ELSE r.num < 0

\* The sign of a - b for two fractions with positive denominators.
FracCmp(a, b) ==
    LET l == a.num * b.den
        r == b.num * a.den
    IN  IF l < r THEN -1 ELSE IF l > r THEN 1 ELSE 0

(***************************************************************************)
(* Array helpers: Array.prototype.filter, slice and the stable sort        *)
(***************************************************************************)
\* arr.slice(0, k)
Take(s, k) == SubSeq(s, 1, Min2(k, Len(s)))

\* arr.slice(-k)
LastN(s, k) == SubSeq(s, Max2(1, Len(s) - k + 1), Len(s))

\* The candle with the code's 0-based index i.
At(cs, i) == cs[i + 1]

\* Array.prototype.sort with a consistent comparator, which is stable: before[i, j]
\* says that cmp(s[i], s[j]) < 0.  An element's place is the number of elements
\* that precede it, or tie with it and stand earlier in s.
StableSort(s, before) ==
    LET n == Len(s)
        rank(i) == 1 + Cardinality({j \in 1..n :
                        \/ before[j, i]
                        \/ (~before[i, j] /\ ~before[j, i] /\ j < i)})
    IN  [r \in 1..n |-> s[CHOOSE i \in 1..n : rank(i) = r]]

RECURSIVE SumTo(_, _)
\* f[1] + ... + f[k]
SumTo(f, k) == IF k = 0 THEN 0 ELSE f[k] + SumTo(f, k - 1)

(***************************************************************************)
(* Swing points and market structure                                       *)
(***************************************************************************)
\* The lookback table without its 1d row: a daily series then falls to the default.
LookbackWithoutDaily(tf) ==
    CASE tf = "15m" -> 3
      [] tf = "30m" -> 4
      [] tf = "1h"  -> 5
      [] tf = "4h"  -> 6
      [] OTHER      -> 5

\* lookbackMap[timeframe] || 5
Lookback(tf) ==
    CASE tf = "15m" -> 3
      [] tf = "30m" -> 4
      [] tf = "1h"  -> 5
      [] tf = "4h"  -> 6
      [] tf = "1d"  -> 8
      [] OTHER      -> 5

\* A swing-high test that looks at the candles before i only.
IsSwingHighLeftOnly(cs, i, lookback) ==
    \A j \in (i - lookback)..i : At(cs, i).h >= At(cs, j).h

\* candles[i].h >= c.h for every c of candles.slice(i - lookback, i + lookback + 1)
IsSwingHigh(cs, i, lookback) ==
    \A j \in (i - lookback)..(i + lookback) : At(cs, i).h >= At(cs, j).h

IsSwingLow(cs, i, lookback) ==
    \A j \in (i - lookback)..(i + lookback) : At(cs, i).l <= At(cs, j).l

RECURSIVE SwingsFrom(_, _, _)
SwingsFrom(cs, i, lookback) ==
    IF i >= Len(cs) - lookback THEN <<>>
    ELSE (IF IsSwingHigh(cs, i, lookback)
            THEN <<[type |-> "high", price |-> At(cs, i).h, index |-> i]>> ELSE <<>>)
         \o (IF IsSwingLow(cs, i, lookback)
            THEN <<[type |-> "low", price |-> At(cs, i).l, index |-> i]>> ELSE <<>>)
         \o SwingsFrom(cs, i + 1, lookback)

findSwingPoints(cs, lookback) == SwingsFrom(cs, lookback, lookback)

\* The lookup with the defensive value for every break of structure.
calculateProbabilityDefensively(bias, event) ==
    IF event = "BOS" THEN 60
    ELSE IF event = "CHoCH" THEN 74
    ELSE 52

calculateProbability(bias, event) ==
    IF event = "BOS" THEN (IF bias = "SIDEWAYS" THEN 60 ELSE 87)
    ELSE IF event = "CHoCH" THEN 74
    ELSE 52

\* The score with a swing bonus of +2 for 8 swings and +1 for 6, kept doubled.
calculateStrengthWithDoubleBonus(probability, event, swingCount) ==
    LET base  == IF probability >= 85 THEN 6 ELSE IF probability >= 70 THEN 4 ELSE 2
        ev    == IF event = "BOS" THEN 4 ELSE IF event = "CHoCH" THEN 2 ELSE 0
        bonus == IF swingCount >= 8 THEN 4 ELSE IF swingCount >= 6 THEN 2 ELSE 0
        score2 == base + ev + bonus
    IN  IF score2 >= 10 THEN "STRONG" ELSE IF score2 >= 6 THEN "MODERATE" ELSE "WEAK"

\* The score is kept doubled, so that the +0.5 bonus stays an integer.
calculateStrength(probability, event, swingCount) ==
    LET base  == IF probability >= 85 THEN 6 ELSE IF probability >= 70 THEN 4 ELSE 2
        ev    == IF event = "BOS" THEN 4 ELSE IF event = "CHoCH" THEN 2 ELSE 0
        bonus == IF swingCount >= 8 THEN 2 ELSE IF swingCount >= 6 THEN 1 ELSE 0
        score2 == base + ev + bonus
    IN  IF score2 >= 10 THEN "STRONG" ELSE IF score2 >= 6 THEN "MODERATE" ELSE "WEAK"

\* breakLevel: a price, or undefined
Level(p) == [defined |-> TRUE, price |-> p]

Undefined == [defined |-> FALSE, price |-> 0]

Structure(bias, event, breakLevel, majorHigh, majorLow, swingCount) ==
    LET probability == calculateProbability(bias, event)
    IN  [bias |-> bias, lastEvent |-> event, breakLevel |-> breakLevel,
         majorHigh |-> majorHigh, majorLow |-> majorLow,
         probability |-> probability,
         strength |-> calculateStrength(probability, event, swingCount)]

\* The structure error with fields of a structure beside it.
StructureErrorWithBias ==
    [error |-> <<"Not enough highs/lows to determine market structure.">>, bias |-> "SIDEWAYS"]

StructureError == [error |-> <<"Not enough highs/lows to determine market structure.">>]

findMarketStructure(swings) ==
    LET highs == SelectSeq(swings, LAMBDA s : s.type = "high")
        lows  == SelectSeq(swings, LAMBDA s : s.type = "low")
    IN  IF Len(highs) < 2 \/ Len(lows) < 2
        THEN StructureError
        ELSE
        \* const [lastHigh, prevHigh] = highs.slice(-2): the first name is bound to
        \* the older of the two swings, the second to the newer.
        LET lastHigh == LastN(highs, 2)[1]
            prevHigh == LastN(highs, 2)[2]
            lastLow  == LastN(lows, 2)[1]
            prevLow  == LastN(lows, 2)[2]
            n        == Len(swings)
        IN  IF lastHigh.price > prevHigh.price /\ lastLow.price > prevLow.price
            THEN Structure("BULLISH", "BOS", Level(prevHigh.price), lastHigh, prevLow, n)
            ELSE IF lastLow.price < prevLow.price /\ lastHigh.price < prevHigh.price
            THEN Structure("BEARISH", "BOS", Level(prevLow.price), prevHigh, lastLow, n)
            ELSE IF lastLow.price < prevLow.price /\ lastHigh.index > prevLow.index
            THEN Structure("BEARISH", "CHoCH", Level(prevLow.price), lastHigh, lastLow, n)
            ELSE IF lastHigh.price > prevHigh.price /\ lastLow.index > prevHigh.index
            THEN Structure("BULLISH", "CHoCH", Level(prevHigh.price), lastHigh, lastLow, n)
            ELSE Structure("SIDEWAYS", "", Undefined, lastHigh, lastLow, n)

(***************************************************************************)
(* Zone engine                                                             *)
(***************************************************************************)
\* rangeStart + (rangeEnd - rangeStart) * permille / 1000, in milli
FibLevel(rangeStart, rangeEnd, permille) ==
    1000 * rangeStart + (rangeEnd - rangeStart) * permille

getAdaptiveSearchRange(profile, tf, totalCandles) ==
    LET col == CASE tf = "15m" -> 1 [] tf = "30m" -> 2 [] tf = "1h" -> 3
                 [] tf = "4h" -> 4 [] tf = "1d" -> 5 [] OTHER -> 0
        row == CASE profile = "scalp" -> <<50, 75, 100, 150, 200>>
                 [] profile = "swing" -> <<200, 300, 400, 500, 600>>
                 [] OTHER             -> <<100, 150, 200, 300, 400>>
        baseRange == IF col = 0 THEN 200 ELSE row[col]
    IN  Min2(baseRange, totalCandles - 1)

hasStrongReaction(cs, index) ==
    IF index < 2 \/ index >= Len(cs) - 2 THEN FALSE
    ELSE LET currentCandle  == At(cs, index)
             nextCandle     == At(cs, index + 1)
             nextNextCandle == At(cs, index + 2)
             strongBullishReaction ==
                 /\ nextCandle.c > nextCandle.o
                 /\ nextNextCandle.c > nextNextCandle.o
                 /\ nextCandle.c > currentCandle.h
             strongBearishReaction ==
                 /\ nextCandle.c < nextCandle.o
                 /\ nextNextCandle.c < nextNextCandle.o
                 /\ nextCandle.c < currentCandle.l
         IN  strongBullishReaction \/ strongBearishReaction

\* Math.abs(currentPrice - (high + low) / 2) / currentPrice * 100
Distance(low, high, currentPrice) ==
    Frac(50 * Abs(2 * currentPrice - (high + low)), currentPrice)

\* Math.abs(candle.c - candle.o) / (candle.h - candle.l)
BodyRatio(candle) == Frac(Abs(candle.c - candle.o), candle.h - candle.l)

calculateZoneStrength(candle, currentPrice) ==
    LET zoneSize == Frac(100 * Abs(candle.h - candle.l), currentPrice)
        distance == Distance(candle.l, candle.h, currentPrice)
        bodySize == BodyRatio(candle)
        sizeScore == IF FracLt(zoneSize, 1, 2) THEN 3
                     ELSE IF FracLt(zoneSize, 1, 1) THEN 2 ELSE 1
        distScore == IF FracLt(distance, 2, 1) THEN 3
                     ELSE IF FracLt(distance, 5, 1) THEN 2 ELSE 1
        bodyScore == IF FracGt(bodySize, 7, 10) THEN 2
                     ELSE IF FracGt(bodySize, 5, 10) THEN 1 ELSE 0
        score == sizeScore + distScore + bodyScore
    IN  IF score >= 6 THEN "STRONG" ELSE IF score >= 4 THEN "MODERATE" ELSE "WEAK"

calculateFVGStrength(low, high, currentPrice) ==
    LET gapSize  == Frac(100 * Abs(high - low), currentPrice)
        distance == Distance(low, high, currentPrice)
        gapScore == IF FracGt(gapSize, 1, 1) THEN 3
                    ELSE IF FracGt(gapSize, 1, 2) THEN 2 ELSE 1
        distScore == IF FracLt(distance, 3, 1) THEN 2
                     ELSE IF FracLt(distance, 7, 1) THEN 1 ELSE 0
        score == gapScore + distScore
    IN  IF score >= 4 THEN "STRONG" ELSE IF score >= 2 THEN "MODERATE" ELSE "WEAK"

calculateAge(formationIndex, totalCandles) ==
    LET candlesAgo == totalCandles - formationIndex
    IN  IF candlesAgo <= 10 THEN "FRESH"
        ELSE IF candlesAgo <= 25 THEN "RECENT" ELSE "OLD"

\* The penetration threshold in thousandths and the number of reaction candles
\* of the profile.
PenetrationThreshold(profile) ==
    IF profile = "swing" THEN 250 ELSE IF profile = "scalp" THEN 100 ELSE 200

MinReactionCandles(profile) == IF profile = "swing" THEN 1 ELSE 0

\* The reaction the inner loop looks for behind the testing candle i.  zone is the
\* forming candle, so zone.l < zone.h picks the bullish reaction whatever the zone.
HasReaction(zone, cs, i, minReactionCandles) ==
    \E j \in 1..minReactionCandles :
        /\ i + j < Len(cs)
        /\ LET nextCandle == At(cs, i + j)
           IN  \/ (zone.l < zone.h /\ nextCandle.c > nextCandle.o)
               \/ (zone.l > zone.h /\ nextCandle.c < nextCandle.o)

\* The loop returns true at the first valid test, so it finds whether one exists.
\* penetrationThreshold *= 1.5 for a zone older than 50 candles: 3 * thr / 2000.
isZoneTested(zone, cs, formationIndex, profile) ==
    LET thr   == PenetrationThreshold(profile)
        react == MinReactionCandles(profile)
        zoneHeight == zone.h - zone.l
        ageInCandles == Len(cs) - formationIndex
        thrNum == IF ageInCandles > 50 THEN 3 * thr ELSE 2 * thr
    IN  \E i \in (formationIndex + 1)..(Len(cs) - react - 1) :
            LET candle  == At(cs, i)
                overlap == Min2(candle.h, zone.h) - Max2(candle.l, zone.l)
            IN  /\ overlap > 0
                /\ FracGeq(Frac(overlap, zoneHeight), thrNum, 2000)
                /\ (react = 0 \/ HasReaction(zone, cs, i, react))

\* The scan for a touching candle started behind the third candle of the formation.
isFVGTestedAfterFormation(low, high, cs, formationIndex) ==
    \E i \in (formationIndex + 2)..(Len(cs) - 1) :
        At(cs, i).l <= high /\ At(cs, i).h >= low

isFVGTested(low, high, cs, formationIndex) ==
    \E i \in (formationIndex + 1)..(Len(cs) - 1) :
        At(cs, i).l <= high /\ At(cs, i).h >= low

\* A demand or supply zone formed by the candle with index i.
CandleZone(cs, i, currentPrice, profile) ==
    LET candle == At(cs, i)
    IN  [low |-> candle.l, high |-> candle.h,
         strength |-> calculateZoneStrength(candle, currentPrice),
         age |-> calculateAge(i, Len(cs)),
         distance |-> Distance(candle.l, candle.h, currentPrice),
         tested |-> isZoneTested(candle, cs, i, profile),
         formationIndex |-> i,
         confluence |-> FALSE]

\* A fair value gap [low, high] around the candle with index i.
GapZone(cs, i, low, high, currentPrice) ==
    [low |-> low, high |-> high,
     strength |-> calculateFVGStrength(low, high, currentPrice),
     age |-> calculateAge(i, Len(cs)),
     distance |-> Distance(low, high, currentPrice),
     tested |-> isFVGTested(low, high, cs, i),
     formationIndex |-> i,
     confluence |-> FALSE]

\* zone.confluence = true when the zone's midpoint is within 1% of one of the four
\* levels handed in (the 38.2% level is not among them); otherwise the field stays
\* unset, which reads as false.
enhanceZonesWithConfluence(zones, fib236, fib50, fib618, fib786) ==
    LET fibLevels == {fib236, fib50, fib618, fib786}
        nearFib(zone) == \E fibLevel \in fibLevels :
            FracLeq(Frac(Abs(500 * (zone.high + zone.low) - fibLevel), fibLevel), 1, 100)
    IN  [k \in 1..Len(zones) |->
            IF nearFib(zones[k]) THEN [zones[k] EXCEPT !.confluence = TRUE] ELSE zones[k]]

StrengthOrder(strength) ==
    IF strength = "STRONG" THEN 3 ELSE IF strength = "MODERATE" THEN 2 ELSE 1

ZoneRank(zone) == StrengthOrder(zone.strength) + (IF zone.confluence THEN 2 ELSE 0)

\* The sort without the slice(0, 3) behind it.
sortWithoutSlice(zones) ==
    LET before == [i \in 1..Len(zones), j \in 1..Len(zones) |->
            IF ZoneRank(zones[i]) # ZoneRank(zones[j])
            THEN ZoneRank(zones[i]) > ZoneRank(zones[j])
            ELSE FracCmp(zones[i].distance, zones[j].distance) < 0]
    IN  StableSort(zones, before)

\* The slice(0, 3) without the sort before it.
sliceWithoutSort(zones) == Take(zones, 3)

\* zones.sort(by score descending, then distance ascending).slice(0, 3)
sortByStrengthAndProximity(zones) ==
    LET before == [i \in 1..Len(zones), j \in 1..Len(zones) |->
            IF ZoneRank(zones[i]) # ZoneRank(zones[j])
            THEN ZoneRank(zones[i]) > ZoneRank(zones[j])
            ELSE FracCmp(zones[i].distance, zones[j].distance) < 0]
    IN  Take(StableSort(zones, before), 3)

\* Number(avgDistance.toFixed(2)), in hundredths of a percent, rounded half up.
AverageDistance(allZones) ==
    IF Len(allZones) = 0 THEN 0
    ELSE LET total == SumTo([k \in 1..Len(allZones) |-> allZones[k].distance.num], Len(allZones))
             den   == allZones[1].distance.den * Len(allZones)
         IN  (200 * total + den) \div (2 * den)

\* The zones the scan of the search window finds, in scan order, before the
\* sort and the cut to three; demand and supply zones carry their confluence flag.
FoundZones(cs, structure, currentPrice, tf, profile) ==
    LET majorHigh  == structure.majorHigh
        majorLow   == structure.majorLow
        rangeStart == Min2(majorLow.price, majorHigh.price)
        rangeEnd   == Max2(majorLow.price, majorHigh.price)
        fib50  == FibLevel(rangeStart, rangeEnd, 500)
        fib236 == FibLevel(rangeStart, rangeEnd, 236)
        fib382 == FibLevel(rangeStart, rangeEnd, 382)
        fib618 == FibLevel(rangeStart, rangeEnd, 618)
        fib786 == FibLevel(rangeStart, rangeEnd, 786)
        n == Len(cs)
        searchRange == getAdaptiveSearchRange(profile, tf, n)
        startSearch == Max2(0, n - searchRange)
        isAggressive == profile = "scalp"
        \* minBodyPercentage, in tenths
        minBody == IF isAggressive THEN 4 ELSE 5
        scanned == [k \in 1..Max2(0, n - 1 - startSearch) |-> startSearch + k - 1]
        meetsReactionCriteria(i) == isAggressive \/ hasStrongReaction(cs, i)
        bigBody(i) == FracGt(BodyRatio(At(cs, i)), minBody, 10)
        inDemandArea(i) ==
            \/ 1000 * At(cs, i).h < fib618
            \/ (1000 * At(cs, i).l < fib50 /\ 1000 * At(cs, i).h < fib786)
        inSupplyArea(i) ==
            \/ 1000 * At(cs, i).l > fib382
            \/ (1000 * At(cs, i).h > fib50 /\ 1000 * At(cs, i).l > fib236)
        isDemand(i) == /\ inDemandArea(i) /\ At(cs, i).c < At(cs, i).o
                       /\ bigBody(i) /\ meetsReactionCriteria(i)
        isSupply(i) == /\ inSupplyArea(i) /\ At(cs, i).c > At(cs, i).o
                       /\ bigBody(i) /\ meetsReactionCriteria(i)
        \* prevCandle is null for i = 0; nextCandle always exists below length - 1
        isBullishFVG(i) == i > 0 /\ At(cs, i - 1).h < At(cs, i + 1).l
        isBearishFVG(i) == i > 0 /\ At(cs, i - 1).l > At(cs, i + 1).h
        demandAt == SelectSeq(scanned, isDemand)
        supplyAt == SelectSeq(scanned, isSupply)
        bullAt   == SelectSeq(scanned, isBullishFVG)
        bearAt   == SelectSeq(scanned, isBearishFVG)
        demandFound == [k \in 1..Len(demandAt) |-> CandleZone(cs, demandAt[k], currentPrice, profile)]
        supplyFound == [k \in 1..Len(supplyAt) |-> CandleZone(cs, supplyAt[k], currentPrice, profile)]
    IN  [demandZones |-> enhanceZonesWithConfluence(demandFound, fib236, fib50, fib618, fib786),
         supplyZones |-> enhanceZonesWithConfluence(supplyFound, fib236, fib50, fib618, fib786),
         bullishFVGs |-> [k \in 1..Len(bullAt) |->
            GapZone(cs, bullAt[k], At(cs, bullAt[k] - 1).h, At(cs, bullAt[k] + 1).l, currentPrice)],
         bearishFVGs |-> [k \in 1..Len(bearAt) |->
            GapZone(cs, bearAt[k], At(cs, bearAt[k] + 1).h, At(cs, bearAt[k] - 1).l, currentPrice)],
         searchRange |-> searchRange]

\* The four lists sorted and cut, and the debugInfo counted over the found zones.
SortedAndCounted(zones, profile) ==
    LET allZones == zones.demandZones \o zones.supplyZones
                    \o zones.bullishFVGs \o zones.bearishFVGs
        testedCount == Len(SelectSeq(allZones, LAMBDA z : z.tested))
        totalZonesFound == Len(allZones)
    IN  [demandZones |-> sortByStrengthAndProximity(zones.demandZones),
         supplyZones |-> sortByStrengthAndProximity(zones.supplyZones),
         bullishFVGs |-> sortByStrengthAndProximity(zones.bullishFVGs),
         bearishFVGs |-> sortByStrengthAndProximity(zones.bearishFVGs),
         debugInfo |-> [totalZonesFound |-> totalZonesFound,
                        zonesFiltered |-> totalZonesFound - Min2(totalZonesFound, 12),
                        searchRange |-> zones.searchRange,
                        profileUsed |-> profile,
                        testedZones |-> testedCount,
                        untestedZones |-> totalZonesFound - testedCount,
                        averageZoneDistance |-> AverageDistance(allZones)]]

\* majorHigh and majorLow are set by every structure findMarketStructure returns,
\* so the early return for a missing one is never taken.
findEnhancedPointsOfInterest(cs, structure, currentPrice, tf, profile) ==
    SortedAndCounted(FoundZones(cs, structure, currentPrice, tf, profile), profile)

(***************************************************************************)
(* Confluence detector                                                     *)
(***************************************************************************)
\* Math.abs(zoneMid - level) / level <= pct / 1000, with level in milli
ZoneNear(zone, level, permille) ==
    FracLeq(Frac(Abs(500 * (zone.high + zone.low) - level), level), permille, 1000)

\* How many later candles touch the high or the low of candle i within 1%.
TouchCount(cs, i) ==
    Cardinality({j \in (i + 1)..(Len(cs) - 1) :
        \/ FracLeq(Frac(Abs(At(cs, j).h - At(cs, i).h), At(cs, i).h), 1, 100)
        \/ FracLeq(Frac(Abs(At(cs, j).l - At(cs, i).l), At(cs, i).l), 1, 100)})

RECURSIVE HistoricalLevelsFrom(_, _)
HistoricalLevelsFrom(cs, i) ==
    IF i >= Len(cs) - 10 THEN <<>>
    ELSE LET touchCount == TouchCount(cs, i)
             strength == IF touchCount >= 4 THEN "STRONG"
                         ELSE IF touchCount >= 3 THEN "MODERATE" ELSE "WEAK"
         IN  (IF touchCount >= 2
              THEN << [price |-> At(cs, i).h, type |-> "resistance", strength |-> strength],
                      [price |-> At(cs, i).l, type |-> "support", strength |-> strength] >>
              ELSE <<>>)
             \o HistoricalLevelsFrom(cs, i + 1)

\* levels.filter((level, index, arr) => arr.findIndex(l => same(l, level)) === index),
\* same being a price within 0.5% of the other's
UniqueLevels(levels) ==
    LET same(a, b) == FracLeq(Frac(Abs(a.price - b.price), b.price), 5, 1000)
        first(k) == \A m \in 1..(k - 1) : ~same(levels[m], levels[k])
        keptAt == SelectSeq([k \in 1..Len(levels) |-> k], first)
    IN  [k \in 1..Len(keptAt) |-> levels[keptAt[k]]]

\* uniqueLevels.sort(by strength descending).slice(0, 10)
StrongestLevels(uniqueLevels) ==
    LET before == [i \in 1..Len(uniqueLevels), j \in 1..Len(uniqueLevels) |->
            StrengthOrder(uniqueLevels[i].strength) > StrengthOrder(uniqueLevels[j].strength)]
    IN  Take(StableSort(uniqueLevels, before), 10)

findHistoricalSR(cs) ==
    LET searchRange == Min2(Len(cs), 200)
        startIndex  == Max2(0, Len(cs) - searchRange)
    IN  StrongestLevels(UniqueLevels(HistoricalLevelsFrom(cs, startIndex + 10)))

\* Every Fibonacci level of the range, with or without a zone near it.
EveryFibonacciLevel(zones, fibLevels) ==
    [k \in 1..Len(fibLevels) |->
        [type |-> "fibonacci", level |-> fibLevels[k].level,
         strength |-> "MODERATE", description |-> fibLevels[k].name]]

\* The Fibonacci levels of the range with a demand or supply zone within 2%.
FibonacciConfluences(zones, fibLevels) ==
    LET nearFib(fib) == Len(SelectSeq(zones, LAMBDA z : ZoneNear(z, fib.level, 20)))
        fibHits == SelectSeq(fibLevels, LAMBDA fib : nearFib(fib) > 0)
    IN  [k \in 1..Len(fibHits) |->
            [type |-> "fibonacci", level |-> fibHits[k].level,
             strength |-> IF nearFib(fibHits[k]) > 1 THEN "STRONG" ELSE "MODERATE",
             description |-> fibHits[k].name]]

\* The historical levels with a demand or supply zone within 1.5%.
HistoricalConfluences(zones, historicalLevels) ==
    LET srHits == SelectSeq(historicalLevels,
            LAMBDA level : \E k \in 1..Len(zones) : ZoneNear(zones[k], 1000 * level.price, 15))
    IN  [k \in 1..Len(srHits) |->
            [type |-> "historical_sr", level |-> 1000 * srHits[k].price,
             strength |-> srHits[k].strength,
             description |-> srHits[k].type]]

detectConfluences(analysis, cs) ==
    LET majorHigh  == analysis.majorHigh
        majorLow   == analysis.majorLow
        rangeStart == Min2(majorLow.price, majorHigh.price)
        rangeEnd   == Max2(majorLow.price, majorHigh.price)
        fibLevels  == << [level |-> FibLevel(rangeStart, rangeEnd, 236), name |-> "23.6%"],
                         [level |-> FibLevel(rangeStart, rangeEnd, 382), name |-> "38.2%"],
                         [level |-> FibLevel(rangeStart, rangeEnd, 500), name |-> "50%"],
                         [level |-> FibLevel(rangeStart, rangeEnd, 618), name |-> "61.8%"],
                         [level |-> FibLevel(rangeStart, rangeEnd, 786), name |-> "78.6%"] >>
    IN  Take(FibonacciConfluences(analysis.demandZones \o analysis.supplyZones, fibLevels)
             \o HistoricalConfluences(analysis.demandZones \o analysis.supplyZones,
                                      findHistoricalSR(cs)), 5)

(***************************************************************************)
(* Wyckoff phase analyzer                                                  *)
(***************************************************************************)
\* The sum of (c.h - c.l) over candles.slice(Math.max(0, i - 20), i); the code
\* divides it by 20 whatever the length of the slice.
VolumeSum(cs, i) ==
    LET from == Max2(0, i - 20)
    IN  SumTo([k \in 1..(i - from) |-> At(cs, from + k - 1).h - At(cs, from + k - 1).l], i - from)

\* volumeProxy > avgVolume * 1.5
IsHighVolume(cs, i) == 40 * (At(cs, i).h - At(cs, i).l) > 3 * VolumeSum(cs, i)

\* The confidence of an event, in hundredths.
calculateEventConfidence(eventType, candle, cs, index, rangeHigh, rangeLow) ==
    LET rangeSize   == rangeHigh - rangeLow
        volumeProxy == candle.h - candle.l
        volumeSum   == VolumeSum(cs, index)
        confidence  ==
            50
            + (IF 40 * volumeProxy > 3 * volumeSum THEN 20 ELSE 0)
            + (IF 10 * volumeProxy > volumeSum THEN 10 ELSE 0)
            + (IF FracGt(BodyRatio(candle), 6, 10) THEN 15 ELSE 0)
            + (CASE eventType = "Spring" -> IF candle.c > candle.o THEN 15 ELSE 0
                 [] eventType = "UpThrust" -> IF candle.c < candle.o THEN 15 ELSE 0
                 [] eventType = "LPS" ->
                        IF 10 * candle.l > 10 * rangeLow + rangeSize THEN 10 ELSE 0
                 [] eventType = "LPSY" ->
                        IF 10 * candle.h < 10 * rangeHigh - rangeSize THEN 10 ELSE 0
                 [] OTHER -> 0)
    IN  Min2(confidence, 100)

IsSpringCandle(cs, i, rangeLow) ==
    /\ At(cs, i).l < rangeLow
    /\ At(cs, i).c > rangeLow
    /\ At(cs, i + 1).c > At(cs, i).c

IsUpThrustCandle(cs, i, rangeHigh) ==
    /\ At(cs, i).h > rangeHigh
    /\ At(cs, i).c < rangeHigh
    /\ At(cs, i + 1).c < At(cs, i).c

\* The events pushed for candle i, in the order of the tests in the loop body.
\* events.some(e => e.type === 'Spring' && e.index < i) looks at every event pushed
\* so far, whatever its confidence: a Spring candle at an index in 10..i-1.
EventsAt(cs, i, rangeHigh, rangeLow) ==
    LET candle == At(cs, i)
        rangeSize == rangeHigh - rangeLow
        Event(type, price) ==
            <<[type |-> type, price |-> price, index |-> i,
               volume |-> candle.h - candle.l,
               confidence |-> calculateEventConfidence(type, candle, cs, i, rangeHigh, rangeLow)]>>
        hasSpringBefore   == \E j \in 10..(i - 1) : IsSpringCandle(cs, j, rangeLow)
        hasUpThrustBefore == \E j \in 10..(i - 1) : IsUpThrustCandle(cs, j, rangeHigh)
    IN  (IF 100 * candle.l <= 102 * rangeLow /\ candle.c < candle.o /\ IsHighVolume(cs, i)
         THEN Event("SC", candle.l) ELSE <<>>)
        \o (IF 100 * candle.h >= 98 * rangeHigh /\ candle.c > candle.o /\ IsHighVolume(cs, i)
         THEN Event("BC", candle.h) ELSE <<>>)
        \o (IF IsSpringCandle(cs, i, rangeLow) THEN Event("Spring", candle.l) ELSE <<>>)
        \o (IF IsUpThrustCandle(cs, i, rangeHigh) THEN Event("UpThrust", candle.h) ELSE <<>>)
        \o (IF /\ candle.l > rangeLow /\ 2 * candle.l < 2 * rangeLow + rangeSize
               /\ hasSpringBefore /\ candle.c > candle.o
         THEN Event("LPS", candle.l) ELSE <<>>)
        \o (IF /\ candle.h < rangeHigh /\ 2 * candle.h > 2 * rangeLow + rangeSize
               /\ hasUpThrustBefore /\ candle.c < candle.o
         THEN Event("LPSY", candle.h) ELSE <<>>)

RECURSIVE EventsFrom(_, _, _, _)
EventsFrom(cs, i, rangeHigh, rangeLow) ==
    IF i >= Len(cs) - 10 THEN <<>>
    ELSE EventsAt(cs, i, rangeHigh, rangeLow) \o EventsFrom(cs, i + 1, rangeHigh, rangeLow)

\* The confidence the events must reach to be retained, in hundredths.
MinEventConfidence == 60

\* The width in candles of the window in which an event repeats an earlier one.
DuplicateWindow == 5

\* An event is dropped when an earlier confident event of its type lies within the
\* window, whether or not that one was itself dropped.
WithoutDuplicates(arr) ==
    LET isFirst(k) == ~\E m \in 1..(k - 1) :
            /\ arr[m].type = arr[k].type
            /\ Abs(arr[m].index - arr[k].index) <= DuplicateWindow
        keptAt == SelectSeq([k \in 1..Len(arr) |-> k], isFirst)
    IN  [k \in 1..Len(keptAt) |-> arr[keptAt[k]]]

\* Every event pushed by the scan, whatever its confidence, repeats included.
detectEveryEvent(cs, rangeHigh, rangeLow) == EventsFrom(cs, 10, rangeHigh, rangeLow)

\* The events are pushed by rising index, so the stable sort by index keeps them.
detectWyckoffEvents(cs, rangeHigh, rangeLow) ==
    WithoutDuplicates(SelectSeq(EventsFrom(cs, 10, rangeHigh, rangeLow),
                                LAMBDA e : e.confidence >= MinEventConfidence))

HasEvent(events, type) == \E k \in 1..Len(events) : events[k].type = type

\* The confidence of a phase, in hundredths, as a fraction.
calculatePhaseConfidence(events, type) ==
    IF Len(events) = 0 THEN Frac(0, 1)
    ELSE LET n == Len(events)
             total == SumTo([k \in 1..n |-> events[k].confidence], n)
             bonus == IF type = "accumulation"
                      THEN (IF HasEvent(events, "Spring") THEN 15 ELSE 0)
                           + (IF HasEvent(events, "LPS") THEN 10 ELSE 0)
                      ELSE (IF HasEvent(events, "UpThrust") THEN 15 ELSE 0)
                           + (IF HasEvent(events, "LPSY") THEN 10 ELSE 0)
             num == (40 + Min2(10 * n, 30) + bonus) * 10 * n + 3 * total
         IN  Frac(Min2(num, 1000 * n), 10 * n)

\* currentPhase: null
NoPhase == [none |-> TRUE]

IsPhase(phase) == "phase" \in DOMAIN phase

Phase(type, phase, events, tradingOpportunity, rangeHigh, rangeLow) ==
    [type |-> type, phase |-> phase, events |-> events,
     confidence |-> calculatePhaseConfidence(events, type),
     tradingOpportunity |-> tradingOpportunity,
     rangeHigh |-> rangeHigh, rangeLow |-> rangeLow]

\* A classification that looks for the distribution events first.
determineDistributionFirst(events, rangeHigh, rangeLow) ==
    LET hasSpring   == HasEvent(events, "Spring")
        hasUpThrust == HasEvent(events, "UpThrust")
        hasLPS      == HasEvent(events, "LPS")
        hasLPSY     == HasEvent(events, "LPSY")
    IN  IF hasUpThrust
        THEN Phase("distribution", IF hasLPSY THEN "D" ELSE "C", events, TRUE,
                   rangeHigh, rangeLow)
        ELSE IF hasSpring
        THEN Phase("accumulation", IF hasLPS THEN "D" ELSE "C", events, TRUE,
                   rangeHigh, rangeLow)
        ELSE NoPhase

\* A classification whose branches are entered on a last point alone.
determinePhaseByLastPoint(events, rangeHigh, rangeLow) ==
    LET hasSpring   == HasEvent(events, "Spring")
        hasUpThrust == HasEvent(events, "UpThrust")
        hasSC       == HasEvent(events, "SC")
        hasBC       == HasEvent(events, "BC")
    IN  IF HasEvent(events, "LPS")
        THEN Phase("accumulation", IF hasSpring THEN "D" ELSE IF hasSC THEN "A" ELSE "B",
                   events, hasSpring, rangeHigh, rangeLow)
        ELSE IF HasEvent(events, "LPSY")
        THEN Phase("distribution", IF hasUpThrust THEN "D" ELSE IF hasBC THEN "A" ELSE "B",
                   events, hasUpThrust, rangeHigh, rangeLow)
        ELSE NoPhase

determineWyckoffPhase(events, rangeHigh, rangeLow) ==
    LET hasSpring   == HasEvent(events, "Spring")
        hasUpThrust == HasEvent(events, "UpThrust")
        hasLPS      == HasEvent(events, "LPS")
        hasLPSY     == HasEvent(events, "LPSY")
        hasSC       == HasEvent(events, "SC")
        hasBC       == HasEvent(events, "BC")
    IN  IF Len(events) = 0 THEN NoPhase
        ELSE IF hasSpring \/ (hasSC /\ hasLPS)
        THEN (IF hasSpring /\ hasLPS
                THEN Phase("accumulation", "D", events, TRUE, rangeHigh, rangeLow)
              ELSE IF hasSpring
                THEN Phase("accumulation", "C", events, TRUE, rangeHigh, rangeLow)
              ELSE IF hasSC
                THEN Phase("accumulation", "A", events, FALSE, rangeHigh, rangeLow)
              ELSE Phase("accumulation", "B", events, FALSE, rangeHigh, rangeLow))
        ELSE IF hasUpThrust \/ (hasBC /\ hasLPSY)
        THEN (IF hasUpThrust /\ hasLPSY
                THEN Phase("distribution", "D", events, TRUE, rangeHigh, rangeLow)
              ELSE IF hasUpThrust
                THEN Phase("distribution", "C", events, TRUE, rangeHigh, rangeLow)
              ELSE IF hasBC
                THEN Phase("distribution", "A", events, FALSE, rangeHigh, rangeLow)
              ELSE Phase("distribution", "B", events, FALSE, rangeHigh, rangeLow))
        ELSE NoPhase

\* phase.events.find(e => e.type === type), which exists where it is used
FindEvent(events, type) ==
    events[CHOOSE k \in 1..Len(events) :
        events[k].type = type /\ \A m \in 1..(k - 1) : events[m].type # type]

\* The least riskReward of a Wyckoff plan: riskReward >= 1.0
WyckoffMinRR == 1

\* A plan's title: which generator wrote it, its side, and the tag that follows.
Title(source, side, tag) == [source |-> source, side |-> side, tag |-> tag]

\* A Wyckoff plan titled with the other side.
WyckoffPlanOfOtherSide(side, phase, entryPrice, stopPrice, targetPrice, riskReward) ==
    [title |-> Title("Wyckoff", IF side = "Buy" THEN "Sell" ELSE "Buy", <<phase.phase>>),
     entry |-> entryPrice, stop |-> stopPrice, target |-> targetPrice,
     riskReward |-> riskReward,
     strength |-> IF FracGeq(phase.confidence, 80, 1) THEN "STRONG"
                  ELSE IF FracGeq(phase.confidence, 60, 1) THEN "MODERATE" ELSE "WEAK",
     age |-> "FRESH"]

\* A Wyckoff plan; entry, stop and target in milli.
WyckoffPlan(side, phase, entryPrice, stopPrice, targetPrice, riskReward) ==
    [title |-> Title("Wyckoff", side, <<phase.phase>>),
     entry |-> entryPrice, stop |-> stopPrice, target |-> targetPrice,
     riskReward |-> riskReward,
     strength |-> IF FracGeq(phase.confidence, 80, 1) THEN "STRONG"
                  ELSE IF FracGeq(phase.confidence, 60, 1) THEN "MODERATE" ELSE "WEAK",
     age |-> "FRESH"]

generateWyckoffTradePlans(phase, rangeHigh, rangeLow) ==
    IF ~IsPhase(phase) THEN <<>>
    ELSE IF ~phase.tradingOpportunity THEN <<>>
    ELSE
    LET rangeSize == rangeHigh - rangeLow
        has(type) == HasEvent(phase.events, type)
    IN  IF phase.type = "accumulation" /\ phase.phase \in {"C", "D"}
        THEN LET entryPrice ==
                    IF phase.phase = "C"
                    THEN (IF has("Spring") THEN 1005 * FindEvent(phase.events, "Spring").price
                          ELSE 1010 * rangeLow)
                    ELSE (IF has("LPS") THEN 1002 * FindEvent(phase.events, "LPS").price
                          ELSE 1000 * rangeLow + 200 * rangeSize)
                 stopPrice == IF phase.phase = "C" THEN 995 * rangeLow ELSE 990 * rangeLow
                 targetPrice == IF phase.phase = "C" THEN 1000 * rangeHigh
                                ELSE 1000 * rangeHigh + 500 * rangeSize
                 riskReward == Frac(targetPrice - entryPrice, entryPrice - stopPrice)
             IN  IF FracGeq(riskReward, WyckoffMinRR, 1)
                 THEN <<WyckoffPlan("Buy", phase, entryPrice, stopPrice, targetPrice, riskReward)>>
                 ELSE <<>>
        ELSE IF phase.type = "distribution" /\ phase.phase \in {"C", "D"}
        THEN LET entryPrice ==
                    IF phase.phase = "C"
                    THEN (IF has("UpThrust") THEN 995 * FindEvent(phase.events, "UpThrust").price
                          ELSE 990 * rangeHigh)
                    ELSE (IF has("LPSY") THEN 998 * FindEvent(phase.events, "LPSY").price
                          ELSE 1000 * rangeHigh - 200 * rangeSize)
                 stopPrice == IF phase.phase = "C" THEN 1005 * rangeHigh ELSE 1010 * rangeHigh
                 targetPrice == IF phase.phase = "C" THEN 1000 * rangeLow
                                ELSE 1000 * rangeLow - 500 * rangeSize
                 riskReward == Frac(entryPrice - targetPrice, stopPrice - entryPrice)
             IN  IF FracGeq(riskReward, WyckoffMinRR, 1)
                 THEN <<WyckoffPlan("Sell", phase, entryPrice, stopPrice, targetPrice, riskReward)>>
                 ELSE <<>>
        ELSE <<>>

\* rangeSize is (rangeHigh - rangeLow) / currentPrice * 100, a fraction.
calculateRangeStrength(duration, rangeSize, eventCount) ==
    LET score ==
            (IF duration >= 50 THEN 3 ELSE IF duration >= 30 THEN 2 ELSE 1)
            + (IF FracGeq(rangeSize, 5, 1) THEN 3 ELSE IF FracGeq(rangeSize, 3, 1) THEN 2 ELSE 1)
            + (IF eventCount >= 4 THEN 2 ELSE IF eventCount >= 2 THEN 1 ELSE 0)
    IN  IF score >= 6 THEN "STRONG" ELSE IF score >= 4 THEN "MODERATE" ELSE "WEAK"

\* The least duration in candles and the least size in percent of a valid range.
MinRangeDuration == 20

MinRangeSize == 2

\* The result for a valid range, given its events and the phase they determine.
PhaseAnalysis(analysis, wyckoffEvents, currentPhase) ==
    LET rangeHigh == analysis.majorHigh.price
        rangeLow  == analysis.majorLow.price
        rangeDuration == Abs(analysis.majorHigh.index - analysis.majorLow.index)
        rangeSize == Frac(100 * (rangeHigh - rangeLow), analysis.currentPrice)
    IN  [isWyckoffPattern |-> IsPhase(currentPhase),
         currentPhase |-> currentPhase,
         tradePlans |-> generateWyckoffTradePlans(currentPhase, rangeHigh, rangeLow),
         rangeAnalysis |-> [rangeHigh |-> rangeHigh, rangeLow |-> rangeLow,
                            duration |-> rangeDuration,
                            strength |-> calculateRangeStrength(rangeDuration, rangeSize,
                                                                Len(wyckoffEvents))]]

EventAnalysis(analysis, wyckoffEvents) ==
    PhaseAnalysis(analysis, wyckoffEvents,
                  determineWyckoffPhase(wyckoffEvents, analysis.majorHigh.price,
                                        analysis.majorLow.price))

\* The events and the phase of the range, whatever its duration and size.
analyzeWyckoffOfAnyRange(cs, analysis) ==
    EventAnalysis(analysis, detectWyckoffEvents(cs, analysis.majorHigh.price,
                                                analysis.majorLow.price))

analyzeWyckoff(cs, analysis) ==
    LET rangeHigh == analysis.majorHigh.price
        rangeLow  == analysis.majorLow.price
        rangeDuration == Abs(analysis.majorHigh.index - analysis.majorLow.index)
        rangeSize == Frac(100 * (rangeHigh - rangeLow), analysis.currentPrice)
        isValidRange == rangeDuration >= MinRangeDuration /\ FracGeq(rangeSize, MinRangeSize, 1)
    IN  IF ~isValidRange
        THEN [isWyckoffPattern |-> FALSE, currentPhase |-> NoPhase, tradePlans |-> <<>>,
              rangeAnalysis |-> [rangeHigh |-> rangeHigh, rangeLow |-> rangeLow,
                                 duration |-> rangeDuration, strength |-> "WEAK"]]
        ELSE EventAnalysis(analysis, detectWyckoffEvents(cs, rangeHigh, rangeLow))

(***************************************************************************)
(* Trade plan generator                                                    *)
(***************************************************************************)
\* profileConfig[profile]: minRR, maxRR, maxDistance and testedWeight in tenths.
ProfileConfig(profile) ==
    CASE profile = "scalp" ->
            [minRR |-> 2, maxRR |-> 20, maxPlans |-> 5, preferClose |-> TRUE,
             maxDistance |-> 50, testedWeight |-> 8]
      [] profile = "balanced" ->
            [minRR |-> 5, maxRR |-> 40, maxPlans |-> 3, preferClose |-> FALSE,
             maxDistance |-> 100, testedWeight |-> 6]
      [] profile = "swing" ->
            [minRR |-> 10, maxRR |-> 80, maxPlans |-> 2, preferClose |-> FALSE,
             maxDistance |-> 200, testedWeight |-> 3]

\* The floor testedWeight must exceed for a tested zone to be eligible, in tenths.
TestedWeightFloor == 4

\* The score of a zone, as a fraction.
calculateZoneScore(zone, config) ==
    LET base == (IF zone.strength = "STRONG" THEN 30
                 ELSE IF zone.strength = "MODERATE" THEN 20 ELSE 10)
                + (IF zone.age = "FRESH" THEN 20
                   ELSE IF zone.age = "RECENT" THEN 15 ELSE 5)
        d == zone.distance
        weight == IF zone.tested THEN config.testedWeight ELSE 10
    IN  IF config.preferClose
        THEN Frac((base * d.den + Max2(0, 20 * d.den - 2 * d.num)) * weight, 10 * d.den)
        ELSE Frac((base + (IF FracGt(d, 2, 1) THEN 15 ELSE 5)) * weight, 10)

calculatePlanStrength(zone, riskReward) ==
    LET score ==
            (IF zone.strength = "STRONG" THEN 3 ELSE IF zone.strength = "MODERATE" THEN 2 ELSE 1)
            + (IF FracGeq(riskReward, 3, 1) THEN 3
               ELSE IF FracGeq(riskReward, 2, 1) THEN 2
               ELSE IF FracGeq(riskReward, 1, 1) THEN 1 ELSE 0)
            + (IF FracLt(zone.distance, 2, 1) THEN 2
               ELSE IF FracLt(zone.distance, 5, 1) THEN 1 ELSE 0)
            - (IF zone.tested THEN 1 ELSE 0)
    IN  IF score >= 6 THEN "STRONG" ELSE IF score >= 4 THEN "MODERATE" ELSE "WEAK"

\* The zones a plan may be built from: near enough and not tested, unless the
\* profile's testedWeight is above the floor; if none is, every zone within 1.5
\* times the distance.
ValidZones(zones, config) ==
    LET strict == SelectSeq(zones, LAMBDA zone :
                    /\ FracLeq(zone.distance, config.maxDistance, 10)
                    /\ (~zone.tested \/ config.testedWeight > TestedWeightFloor))
    IN  IF Len(strict) = 0
        THEN SelectSeq(zones, LAMBDA zone : FracLeq(zone.distance, 3 * config.maxDistance, 20))
        ELSE strict

\* validZones.sort(...) by the profile's preference.
SortByPreference(validZones, config) ==
    LET n == Len(validZones)
        before == [i \in 1..n, j \in 1..n |->
            IF config.preferClose
            THEN FracCmp(validZones[i].distance, validZones[j].distance) < 0
            ELSE FracCmp(calculateZoneScore(validZones[i], config),
                         calculateZoneScore(validZones[j], config)) > 0]
    IN  StableSort(validZones, before)

\* riskReward >= config.minRR && riskReward <= config.maxRR
WithinRR(riskReward, config) ==
    FracGeq(riskReward, config.minRR, 10) /\ FracLeq(riskReward, config.maxRR, 10)

\* The plan built from the zone at place index (from 0) of the chosen zones, as a
\* sequence of one plan, or of none when its riskReward is outside the profile's
\* bounds.  entry, stop and target are in milli.
BuyPlan(zone, index, analysis, config) ==
    LET entryPrice == 1000 * zone.high
        stopPrice  == 1000 * zone.low
        range == analysis.majorHigh.price - analysis.majorLow.price
        targetPrice == IF analysis.bias = "SIDEWAYS" THEN entryPrice + 600 * range
                       ELSE 1000 * analysis.majorHigh.price
        riskReward == Frac(targetPrice - entryPrice, entryPrice - stopPrice)
    IN  IF WithinRR(riskReward, config)
        THEN <<[title |-> Title("Plan", "Buy", <<index + 1, zone.strength>>),
                entry |-> entryPrice, stop |-> stopPrice, target |-> targetPrice,
                riskReward |-> riskReward,
                strength |-> calculatePlanStrength(zone, riskReward),
                age |-> zone.age]>>
        ELSE <<>>

SellPlan(zone, index, analysis, config) ==
    LET entryPrice == 1000 * zone.low
        stopPrice  == 1000 * zone.high
        range == analysis.majorHigh.price - analysis.majorLow.price
        targetPrice == IF analysis.bias = "SIDEWAYS" THEN entryPrice - 600 * range
                       ELSE 1000 * analysis.majorLow.price
        riskReward == Frac(entryPrice - targetPrice, stopPrice - entryPrice)
    IN  IF WithinRR(riskReward, config)
        THEN <<[title |-> Title("Plan", "Sell", <<index + 1, zone.strength>>),
                entry |-> entryPrice, stop |-> stopPrice, target |-> targetPrice,
                riskReward |-> riskReward,
                strength |-> calculatePlanStrength(zone, riskReward),
                age |-> zone.age]>>
        ELSE <<>>

RECURSIVE PlansOf(_, _, _, _, _)
\* The plans of chosen[k..], in order.
PlansOf(chosen, k, type, analysis, config) ==
    IF k > Len(chosen) THEN <<>>
    ELSE (IF type = "buy" THEN BuyPlan(chosen[k], k - 1, analysis, config)
          ELSE SellPlan(chosen[k], k - 1, analysis, config))
         \o PlansOf(chosen, k + 1, type, analysis, config)

\* The plans of both sides whatever the bias.
createPlansUnderAnyBias(analysis, type, profile) ==
    LET config == ProfileConfig(profile)
    IN  IF type = "buy"
        THEN PlansOf(Take(SortByPreference(ValidZones(analysis.demandZones, config), config),
                          config.maxPlans), 1, "buy", analysis, config)
        ELSE PlansOf(Take(SortByPreference(ValidZones(analysis.supplyZones, config), config),
                          config.maxPlans), 1, "sell", analysis, config)

createMultipleTradePlans(analysis, type, profile) ==
    LET config == ProfileConfig(profile)
        bias == analysis.bias
    IN  IF type = "buy" /\ bias \in {"BULLISH", "SIDEWAYS"}
        THEN PlansOf(Take(SortByPreference(ValidZones(analysis.demandZones, config), config),
                          config.maxPlans), 1, "buy", analysis, config)
        ELSE IF type = "sell" /\ bias \in {"BEARISH", "SIDEWAYS"}
        THEN PlansOf(Take(SortByPreference(ValidZones(analysis.supplyZones, config), config),
                          config.maxPlans), 1, "sell", analysis, config)
        ELSE <<>>

(***************************************************************************)
(* analyze                                                                 *)
(***************************************************************************)
\* The least number of candles above twice the lookback, and of swings.
MinExtraCandles == 10

MinSwings == 4

\* The plans of the generic zone-based generator.
GenericPlans(analysis, profile) ==
    [buyPlans |-> createMultipleTradePlans(analysis, "buy", profile),
     sellPlans |-> createMultipleTradePlans(analysis, "sell", profile)]

\* A SIDEWAYS analysis with its Wyckoff analysis: the Wyckoff plans when a pattern
\* was found and has at least one plan, else the generic plans.
WithWyckoff(analysis, wyckoffAnalysis, profile) ==
    (IF wyckoffAnalysis.isWyckoffPattern /\ Len(wyckoffAnalysis.tradePlans) > 0
     THEN [buyPlans |-> SelectSeq(wyckoffAnalysis.tradePlans,
                                  LAMBDA plan : plan.title.side = "Buy"),
           sellPlans |-> SelectSeq(wyckoffAnalysis.tradePlans,
                                   LAMBDA plan : plan.title.side = "Sell")]
     ELSE GenericPlans(analysis, profile))
    @@ [wyckoffAnalysis |-> wyckoffAnalysis] @@ analysis

\* The generic plans whatever the Wyckoff analysis of a SIDEWAYS market found.
WithGenericPlans(cs, analysis, profile) ==
    IF analysis.bias = "SIDEWAYS"
    THEN GenericPlans(analysis, profile)
         @@ [wyckoffAnalysis |-> analyzeWyckoff(cs, analysis)] @@ analysis
    ELSE GenericPlans(analysis, profile) @@ analysis

\* The Wyckoff analysis run under every bias, its plans taken when it has any.
WithWyckoffAlways(cs, analysis, profile) ==
    WithWyckoff(analysis, analyzeWyckoff(cs, analysis), profile)

\* The plans of the result: those of the Wyckoff analysis when the bias is
\* SIDEWAYS and it reports a pattern with at least one plan, else the generic ones.
WithPlans(cs, analysis, profile) ==
    IF analysis.bias = "SIDEWAYS"
    THEN WithWyckoff(analysis, analyzeWyckoff(cs, analysis), profile)
    ELSE GenericPlans(analysis, profile) @@ analysis

\* No candle array: the null or undefined the caller may hand to analyze.
NoCandles == [i \in {0} |-> 0]

\* `Insufficient data for reliable analysis on ${timeframe}.`
InsufficientData(tf) == [error |-> <<"Insufficient data for reliable analysis on", tf>>]

\* `Could not identify sufficient highs/lows for analysis on ${timeframe}.`
InsufficientSwings(tf) ==
    [error |-> <<"Could not identify sufficient highs/lows for analysis on", tf>>]

\* The analysis with its confluences, its debugInfo if debugMode is set, and its plans.
Completed(cs, stored, zoned, debugInfo) ==
    WithPlans(cs,
              (IF stored.debugMode THEN [debugInfo |-> debugInfo] ELSE <<>>)
              @@ [confluences |-> detectConfluences(zoned, cs)] @@ zoned,
              stored.tradingProfile)

\* The structure with the timeframe, the current price and the zones found.
Zoned(cs, tf, stored, structure, pois) ==
    Completed(cs, stored,
              structure @@
                  [timeframe |-> tf, currentPrice |-> At(cs, Len(cs) - 1).c,
                   demandZones |-> pois.demandZones, supplyZones |-> pois.supplyZones,
                   bullishFVGs |-> pois.bullishFVGs, bearishFVGs |-> pois.bearishFVGs],
              pois.debugInfo)

Structured(cs, tf, stored, structure) ==
    IF "error" \in DOMAIN structure THEN structure
    ELSE Zoned(cs, tf, stored, structure,
               findEnhancedPointsOfInterest(cs, structure, At(cs, Len(cs) - 1).c, tf,
                                            stored.tradingProfile))

Swung(cs, tf, stored, swings) ==
    IF Len(swings) < MinSwings THEN InsufficientSwings(tf)
    ELSE Structured(cs, tf, stored, findMarketStructure(swings))

analyze(cs, tf, stored) ==
    IF cs = NoCandles \/ Len(cs) < Lookback(tf) * 2 + MinExtraCandles
    THEN InsufficientData(tf)
    ELSE Swung(cs, tf, stored, findSwingPoints(cs, Lookback(tf)))

(***************************************************************************)
(* The settings store                                                      *)
(***************************************************************************)
Profiles == {"scalp", "balanced", "swing"}

\* DEFAULT_SETTINGS, of which the engine reads tradingProfile and debugMode (unset,
\* so false, by default).
DefaultSettings == [tradingProfile |-> "balanced", debugMode |-> FALSE]

\* getSettings() after saveSettings(patch): { ...current, ...patch }
Merged(current, patch) == patch @@ current

(***************************************************************************)
(* The candle arrays the caller hands in                                   *)
(*                                                                         *)
(* A series is written as legs: a leg of n candles, each opening at the    *)
(* close before it, closing step higher, with an upper wick of up above    *)
(* its body and a lower wick of dn below it.                               *)
(***************************************************************************)
Leg(n, step, up, dn) == [n |-> n, step |-> step, up |-> up, dn |-> dn]

RECURSIVE LegCandles(_, _, _, _)
\* The candles k.. of one leg that starts at price `from`, the first with timestamp t.
LegCandles(leg, k, from, t) ==
    IF k > leg.n THEN <<>>
    ELSE LET o == from
             c == from + leg.step
         IN  <<[t |-> t, o |-> o, h |-> Max2(o, c) + leg.up, l |-> Min2(o, c) - leg.dn, c |-> c]>>
             \o LegCandles(leg, k + 1, c, t + 1)

RECURSIVE Build(_, _, _, _)
Build(legs, k, from, t) ==
    IF k > Len(legs) THEN <<>>
    ELSE LegCandles(legs[k], 1, from, t)
         \o Build(legs, k + 1, from + legs[k].n * legs[k].step, t + legs[k].n)

\* The series reflected in the price `axis`: rises become falls, highs lows.
Mirror(cs, axis) ==
    [k \in 1..Len(cs) |->
        [t |-> cs[k].t, o |-> axis - cs[k].o, h |-> axis - cs[k].l,
         l |-> axis - cs[k].h, c |-> axis - cs[k].c]]

Up(n, step) == Leg(n, step, 3, 1)

Down(n, step) == Leg(n, -step, 1, 3)

\* The longest constant-price series, and the longest tail of a range series.
MaxFlat == 27

MaxTail == 12

\* A constant price, n candles long.
Flat(n) == Build(<<Leg(n, 0, 0, 0)>>, 1, 1400, 0)

\* Lows all equal under highs that rise by one each candle: swing lows only.
Wedge(n) == [k \in 1..n |-> [t |-> k - 1, o |-> 1400, h |-> 1400 + k, l |-> 1400, c |-> 1400]]

\* A rise of `step` a candle, n candles long: no candle is a swing.
Rise(n, step) == Build(<<Up(n, step)>>, 1, 1400, 0)

\* Four rallies of 4 candles by `rise`, each followed by a pullback of 4 by `fall`.
Trend(rise, fall) ==
    Build(<<Up(4, rise), Down(4, fall), Up(4, rise), Down(4, fall),
            Up(4, rise), Down(4, fall), Up(4, rise), Down(4, fall)>>, 1, 1400, 0)

\* A range: a high at candle 4, a slide of 22 candles to a low of 1407 at candle
\* 26, a rally above the first high, a drop, a candle at index 34 whose low is
\* `depth` below its open of 1412 and which closes at 1415, and a recovery of
\* `tail` candles.
Range(depth, tail) ==
    Build(<<Up(5, 12), Down(22, 5), Up(4, 29), Down(3, 38),
            Leg(1, 3, 1, depth), Up(tail, 6)>>, 1, 1460, 0)

\* The range with a rally of `rise` a candle that stops short of the first high,
\* a drop back to 1412 and a last candle that stays above the low of the range.
Climax(rise) ==
    Build(<<Up(5, 12), Down(22, 5), Up(4, rise), Down(3, (4 * rise - 2) \div 3),
            Leg(1, 3, 1, 5), Up(10, 6)>>, 1, 1460, 0)

\* The range broken downwards by two weak candles, the second of which closes
\* back above the later low, then a rally of three candles and a fall back.
Shakeout ==
    Build(<<Up(5, 12), Down(22, 5), Leg(1, -10, 3, 5), Leg(1, -3, 3, 3),
            Leg(3, 20, 1, 1), Leg(1, -60, 3, 1), Up(13, 6)>>, 1, 1460, 0)

\* The range with a dip under its low, a rally whose last candle pierces the
\* first high and closes under it, and a slow decline.
Thrust ==
    Build(<<Up(5, 12), Down(22, 5), Leg(2, 8, 1, 5), Leg(1, -20, 3, 3),
            Leg(4, 29, 3, 3), Down(12, 6)>>, 1, 1460, 0)

\* The range left by six rising candles with long lower wicks, the first of
\* which dips under its low, then a fall of four candles and a recovery.
Rebound ==
    Build(<<Up(5, 12), Down(22, 5), Leg(6, 20, 1, 19), Leg(4, -20, 3, 1), Up(13, 6)>>,
          1, 1460, 0)

\* A rally of 12 candles, a slow fall of 8 with long lower wicks and a rally
\* of 5: the last swing high and swing low lie 8 candles apart.
Pause == Build(<<Leg(12, 20, 3, 3), Leg(8, -3, 3, 9), Leg(5, 20, 3, 9)>>, 1, 1400, 0)

\* Flat candles with wicks, a run of candles without any, a rally of five and
\* a fall of six: the last two swing highs follow the last two swing lows.
Ledge ==
    Build(<<Leg(1, 0, 0, 0), Leg(5, 0, 1, 3), Leg(5, 0, 0, 0), Leg(5, 20, 1, 1),
            Leg(6, -20, 1, 1)>>, 1, 1400, 0)

\* Rallies of 3 candles by 10, each followed by a pullback of 3 by 4.
Staircase(cycles) ==
    Build([k \in 1..(2 * cycles) |-> IF k % 2 = 1 THEN Up(3, 10) ELSE Down(3, 4)],
          1, 1400, 0)

Depths == {5, 19, 40}

Series ==
    {Flat(n) : n \in 15..MaxFlat}
    \cup {Wedge(20), Rise(20, 5)}
    \cup {Trend(10, 4), Trend(6, 6)}
    \cup {Range(d, tail) : d \in Depths, tail \in 10..MaxTail}
    \cup {Climax(15), Shakeout, Thrust, Rebound, Pause, Ledge}
    \cup {Staircase(3), Staircase(5)}

\* Each series, its reflection in the price 3000, and the missing array.
CandleInputs == Series \cup {Mirror(cs, 3000) : cs \in Series} \cup {NoCandles}

Timeframes == {"15m", "30m", "1h", "4h", "1d", "1w"}

(***************************************************************************)
(* The state machine: the settings collaborator writes the store, the      *)
(* caller picks a timeframe and a candle array and calls analyze, once or  *)
(* again.  result is what the last call returned for the inputs as they    *)
(* stand and previous what the call before it returned; both are pending   *)
(* again once an input changes.                                            *)
(***************************************************************************)
Pending == [pending |-> TRUE]

\* The most analyze calls followed on one choice of inputs.
MaxCalls == 2

Init ==
    /\ settings = DefaultSettings
    /\ candles = NoCandles
    /\ timeframe = "1h"
    /\ result = Pending
    /\ previous = Pending
    /\ calls = 0

SaveSettings(patch) ==
    /\ settings' = Merged(settings, patch)
    /\ settings' # settings
    /\ result' = Pending
    /\ previous' = Pending
    /\ calls' = 0
    /\ UNCHANGED <<candles, timeframe>>

SelectTimeframe(tf) ==
    /\ tf # timeframe
    /\ timeframe' = tf
    /\ result' = Pending
    /\ previous' = Pending
    /\ calls' = 0
    /\ UNCHANGED <<settings, candles>>

FetchCandles(cs) ==
    /\ cs # candles
    /\ candles' = cs
    /\ result' = Pending
    /\ previous' = Pending
    /\ calls' = 0
    /\ UNCHANGED <<settings, timeframe>>

\* An analyze that leaves the debug flag of the store switched.
AnalyzeSwitchingDebug ==
    /\ calls < MaxCalls
    /\ result' = analyze(candles, timeframe, settings)
    /\ previous' = result
    /\ calls' = calls + 1
    /\ settings' = [settings EXCEPT !.debugMode = ~@]
    /\ UNCHANGED <<candles, timeframe>>

\* An analyze that leaves the caller's array in reverse order.
AnalyzeReversingCandles ==
    /\ calls < MaxCalls
    /\ result' = analyze(candles, timeframe, settings)
    /\ previous' = result
    /\ calls' = calls + 1
    /\ candles' = IF candles = NoCandles
                   THEN candles
                   ELSE [k \in DOMAIN candles |-> candles[Len(candles) + 1 - k]]
    /\ UNCHANGED <<settings, timeframe>>

\* A call of analyze: it reads the candles, the timeframe and the store, and
\* writes none of them.
Analyze ==
    /\ calls < MaxCalls
    /\ result' = analyze(candles, timeframe, settings)
    /\ previous' = result
    /\ calls' = calls + 1
    /\ UNCHANGED <<settings, candles, timeframe>>

Next ==
    \/ \E p \in Profiles : SaveSettings([tradingProfile |-> p])
    \/ \E d \in BOOLEAN : SaveSettings([debugMode |-> d])
    \/ \E tf \in Timeframes : SelectTimeframe(tf)
    \/ \E cs \in CandleInputs : FetchCandles(cs)
    \/ Analyze

Spec == Init /\ [][Next]_vars

(***************************************************************************)
(* Properties of what analyze returned for the inputs as they stand        *)
(***************************************************************************)
Returned == result # Pending

IsError == Returned /\ "error" \in DOMAIN result

IsAnalysis == Returned /\ "error" \notin DOMAIN result

HasCandles == candles # NoCandles

Profile == settings.tradingProfile

\* What the swing detector emits for the inputs as they stand.
DetectedSwings == findSwingPoints(candles, Lookback(timeframe))

DetectedHighs == SelectSeq(DetectedSwings, LAMBDA s : s.type = "high")

DetectedLows == SelectSeq(DetectedSwings, LAMBDA s : s.type = "low")

Plans == result.buyPlans \o result.sellPlans

\* The newest of the detected highs is above the one before it, and so for the lows.
RisingSwings ==
    LET highs == DetectedHighs
        lows  == DetectedLows
    IN  /\ highs[Len(highs)].price > highs[Len(highs) - 1].price
        /\ lows[Len(lows)].price > lows[Len(lows) - 1].price

\* C1: when the most recent swing high is above the previous swing high and the
\* most recent swing low is above the previous swing low, analyze reports bias
\* BULLISH, lastEvent BOS and a breakLevel equal to the price of the older of the
\* two swing highs.
C1_RisingSwingsAreBullish ==
    (IsAnalysis /\ RisingSwings) =>
        /\ result.bias = "BULLISH"
        /\ result.lastEvent = "BOS"
        /\ result.breakLevel = Level(DetectedHighs[Len(DetectedHighs) - 1].price)

\* The lookback the specification gives each timeframe.
StatedLookback(tf) ==
    CASE tf = "15m" -> 3
      [] tf = "30m" -> 4
      [] tf = "1h"  -> 5
      [] tf = "4h"  -> 6
      [] tf = "1d"  -> 8
      [] OTHER      -> 5

StatedMinimum == 2 * StatedLookback(timeframe) + 10

QualifyingSwings ==
    Len(DetectedSwings) >= 4 /\ Len(DetectedHighs) >= 2 /\ Len(DetectedLows) >= 2

\* C2: for every timeframe analyze returns an error value when the candle array
\* is missing or holds fewer than 2*lookback+10 candles (lookback 3/4/5/6/8 for
\* 15m/30m/1h/4h/1d, 5 otherwise), so for 2*lookback+9 candles; and
\* 2*lookback+10 candles with at least 4 swings, 2 of them highs and 2 lows,
\* yield an analysis.
C2_MinimumLength ==
    Returned =>
        /\ (~HasCandles \/ Len(candles) < StatedMinimum) =>
                IsError /\ DOMAIN result = {"error"}
        /\ (HasCandles /\ Len(candles) = StatedMinimum /\ QualifyingSwings) => IsAnalysis

\* A daily series one candle short of the minimum was refused.
C2_Witness ==
    /\ timeframe = "1d"
    /\ HasCandles
    /\ Len(candles) = StatedMinimum - 1
    /\ IsError

\* Every candle has the same open, high, low and close.
IsConstant(cs) ==
    \A k \in 1..Len(cs) :
        cs[k].o = cs[1].o /\ cs[k].h = cs[1].o /\ cs[k].l = cs[1].o /\ cs[k].c = cs[1].o

\* C3: for a constant-price series of any length at or above the minimum, analyze
\* returns the insufficient-swings error rather than an analysis.
C3_ConstantSeriesHasNoSwings ==
    (Returned /\ HasCandles /\ IsConstant(candles) /\ Len(candles) >= StatedMinimum) =>
        result = InsufficientSwings(timeframe)

\* The riskReward bounds and the plan count the specification gives each profile,
\* the bounds in tenths.
StatedBounds(profile) ==
    CASE profile = "scalp"    -> [minRR |-> 2, maxRR |-> 20, maxPlans |-> 5]
      [] profile = "balanced" -> [minRR |-> 5, maxRR |-> 40, maxPlans |-> 3]
      [] profile = "swing"    -> [minRR |-> 10, maxRR |-> 80, maxPlans |-> 2]

\* C4: every plan in buyPlans or sellPlans of a successful analysis, under every
\* profile and bias, Wyckoff plans included, has minRR <= riskReward <= maxRR of
\* the profile, and each list holds at most maxPlans plans.
C4_PlansWithinProfile ==
    IsAnalysis =>
        LET stated == StatedBounds(Profile)
        IN  /\ Len(result.buyPlans) <= stated.maxPlans
            /\ Len(result.sellPlans) <= stated.maxPlans
            /\ \A k \in 1..Len(Plans) :
                /\ FracGeq(Plans[k].riskReward, stated.minRR, 10)
                /\ FracLeq(Plans[k].riskReward, stated.maxRR, 10)

\* entry - stop of a buy, stop - entry of a sell
Risk(plan) ==
    IF plan.title.side = "Buy" THEN plan.entry - plan.stop ELSE plan.stop - plan.entry

\* C5: every emitted plan has entry different from stop, a positive risk
\* denominator, and riskReward equal to |target - entry| / |entry - stop|, which
\* is strictly positive.
C5_RiskIsPositive ==
    IsAnalysis =>
        \A k \in 1..Len(Plans) :
            LET plan == Plans[k]
            IN  /\ plan.entry # plan.stop
                /\ Risk(plan) > 0
                /\ Abs(plan.riskReward.num) = Abs(plan.target - plan.entry)
                /\ Abs(plan.riskReward.den) = Abs(plan.entry - plan.stop)
                /\ FracGt(plan.riskReward, 0, 1)

\* The candidates of each kind found in the search window, before the cut.
Candidates == FoundZones(candles, result, result.currentPrice, timeframe, Profile)

\* C6: in every successful analysis each of demandZones, supplyZones, bullishFVGs
\* and bearishFVGs holds at most 3 zones, however many candidates were found.
C6_ZoneCap ==
    IsAnalysis =>
        /\ Len(result.demandZones) <= 3
        /\ Len(result.supplyZones) <= 3
        /\ Len(result.bullishFVGs) <= 3
        /\ Len(result.bearishFVGs) <= 3

\* More than 3 demand zones and more than 3 bullish gaps were found, 3 of each kept.
C6_Witness ==
    /\ IsAnalysis
    /\ Len(Candidates.demandZones) > 3
    /\ Len(result.demandZones) = 3
    /\ Len(Candidates.bullishFVGs) > 3
    /\ Len(result.bullishFVGs) = 3

\* C7: every swing high the detector emits is at an index with at least lookback
\* candles on each side and has high >= the high of every candle of
\* [i-lookback, i+lookback]; every swing low likewise has the least low; and the
\* list is ordered by non-decreasing index.
C7_SwingWindows ==
    (Returned /\ HasCandles) =>
        LET swings   == DetectedSwings
            lookback == Lookback(timeframe)
        IN  /\ \A k \in 1..Len(swings) :
                LET i == swings[k].index
                IN  /\ i >= lookback
                    /\ i + lookback <= Len(candles) - 1
                    /\ swings[k].type = "high" =>
                        /\ swings[k].price = At(candles, i).h
                        /\ \A j \in (i - lookback)..(i + lookback) :
                                At(candles, i).h >= At(candles, j).h
                    /\ swings[k].type = "low" =>
                        /\ swings[k].price = At(candles, i).l
                        /\ \A j \in (i - lookback)..(i + lookback) :
                                At(candles, i).l <= At(candles, j).l
            /\ \A k \in 1..(Len(swings) - 1) : swings[k].index <= swings[k + 1].index

\* An analysis of a series whose swings are highs and lows at fewer indices than
\* the detector looked at.
C7_Witness ==
    /\ IsAnalysis
    /\ Len(DetectedHighs) >= 2
    /\ Len(DetectedLows) >= 2
    /\ Len(DetectedSwings) < Len(candles) - 2 * Lookback(timeframe)

\* The Wyckoff analysis of a SIDEWAYS result reports a phase with tradingOpportunity.
TradeablePhase ==
    /\ IsAnalysis
    /\ result.bias = "SIDEWAYS"
    /\ IsPhase(result.wyckoffAnalysis.currentPhase)
    /\ result.wyckoffAnalysis.currentPhase.tradingOpportunity

WyckoffPlans == result.wyckoffAnalysis.tradePlans

\* buyPlans and sellPlans are the Wyckoff plans, and none is a generic one.
OnlyWyckoffPlans ==
    /\ result.buyPlans = SelectSeq(WyckoffPlans, LAMBDA plan : plan.title.side = "Buy")
    /\ result.sellPlans = SelectSeq(WyckoffPlans, LAMBDA plan : plan.title.side = "Sell")
    /\ \A k \in 1..Len(Plans) : Plans[k].title.source = "Wyckoff"

\* buyPlans and sellPlans are those of the generic zone-based generator.
OnlyGenericPlans ==
    /\ result.buyPlans = createMultipleTradePlans(result, "buy", Profile)
    /\ result.sellPlans = createMultipleTradePlans(result, "sell", Profile)
    /\ \A k \in 1..Len(Plans) : Plans[k].title.source = "Plan"

\* C8, as stated: when bias is SIDEWAYS and the Wyckoff analysis reports a
\* tradeable phase, buyPlans and sellPlans consist only of the Wyckoff plans and
\* contain no plan of the generic generator.
C8_TradeablePhaseSupersedes == TradeablePhase => OnlyWyckoffPlans

\* C8, amended: when bias is SIDEWAYS and the Wyckoff analysis reports a tradeable
\* phase, buyPlans and sellPlans consist only of the Wyckoff plans if there is at
\* least one, and are the generic generator's plans if the phase's plan was
\* discarded.
C8_WyckoffPlansSupersede ==
    TradeablePhase =>
        IF Len(WyckoffPlans) > 0 THEN OnlyWyckoffPlans ELSE OnlyGenericPlans

\* A tradeable phase whose plan replaced the generic ones.
C8_Witness == TradeablePhase /\ Len(WyckoffPlans) > 0 /\ Len(Plans) > 0

\* C9: a successful analysis carries a wyckoffAnalysis if and only if its bias is
\* SIDEWAYS; under BULLISH and BEARISH bias the plans are the generic generator's.
C9_WyckoffOnlyWhenSideways ==
    IsAnalysis =>
        /\ ("wyckoffAnalysis" \in DOMAIN result) <=> (result.bias = "SIDEWAYS")
        /\ result.bias # "SIDEWAYS" => OnlyGenericPlans

\* A trending analysis with generic plans and no wyckoffAnalysis.
C9_Witness ==
    /\ IsAnalysis
    /\ result.bias \in {"BULLISH", "BEARISH"}
    /\ "wyckoffAnalysis" \notin DOMAIN result
    /\ Len(Plans) > 0

\* The fields every analysis defines.
AnalysisFields ==
    {"bias", "probability", "strength", "majorHigh", "majorLow", "currentPrice",
     "demandZones", "supplyZones", "bullishFVGs", "bearishFVGs", "confluences",
     "buyPlans", "sellPlans"}

\* An {error} alone, or every field of an analysis and no error.
ErrorOrComplete ==
    \/ DOMAIN result = {"error"}
    \/ ("error" \notin DOMAIN result /\ AnalysisFields \subseteq DOMAIN result)

\* The detector ran and found fewer than 2 highs or fewer than 2 lows.
TooFewHighsOrLows ==
    /\ HasCandles
    /\ Len(candles) >= StatedMinimum
    /\ (Len(DetectedHighs) < 2 \/ Len(DetectedLows) < 2)

\* C10, as stated: analyze returns an {error} alone or a complete analysis; if the
\* detected swings contain fewer than 2 highs or fewer than 2 lows the result is
\* the structure error.
C10_StructureErrorOrComplete ==
    Returned =>
        /\ ErrorOrComplete
        /\ TooFewHighsOrLows => result = StructureError

\* C10, amended: analyze returns an {error} alone or a complete analysis; if the
\* detected swings contain fewer than 2 highs or fewer than 2 lows the result is
\* the structure error when there are at least 4 swings and the
\* insufficient-swings error when there are fewer.
C10_ErrorOrComplete ==
    Returned =>
        /\ ErrorOrComplete
        /\ TooFewHighsOrLows =>
            result = IF Len(DetectedSwings) >= 4 THEN StructureError
                     ELSE InsufficientSwings(timeframe)

\* Four swings or more, all of them lows: the structure error.
C10_Witness ==
    /\ Returned
    /\ TooFewHighsOrLows
    /\ Len(DetectedSwings) >= 4
    /\ result = StructureError

ValidRange ==
    /\ IsAnalysis
    /\ result.bias = "SIDEWAYS"
    /\ result.wyckoffAnalysis.rangeAnalysis.duration >= MinRangeDuration
    /\ FracGeq(Frac(100 * (result.majorHigh.price - result.majorLow.price),
                    result.currentPrice), MinRangeSize, 1)

\* The retained events of the range: confident, and without the repeats.
RetainedEvents == detectWyckoffEvents(candles, result.majorHigh.price, result.majorLow.price)

CurrentPhase == result.wyckoffAnalysis.currentPhase

\* The phase reported is phase `phase` of schema `type`.
PhaseIs(type, phase) ==
    /\ result.wyckoffAnalysis.isWyckoffPattern
    /\ IsPhase(CurrentPhase)
    /\ CurrentPhase.type = type
    /\ CurrentPhase.phase = phase

\* C13: if the retained Wyckoff events contain a selling climax SC without any
\* Spring, the range is classified phase A of accumulation, and if they contain
\* a buying climax BC without any UpThrust, phase A of distribution, with
\* tradingOpportunity false and isWyckoffPattern true.
C13_ClimaxAloneIsPhaseA ==
    ValidRange =>
        /\ (HasEvent(RetainedEvents, "SC") /\ ~HasEvent(RetainedEvents, "Spring")) =>
                PhaseIs("accumulation", "A") /\ ~CurrentPhase.tradingOpportunity
        /\ (HasEvent(RetainedEvents, "BC") /\ ~HasEvent(RetainedEvents, "UpThrust")) =>
                PhaseIs("distribution", "A") /\ ~CurrentPhase.tradingOpportunity

\* A Spring, or a selling climax with a last point of support, is retained.
AccumulationEvidence(events) ==
    HasEvent(events, "Spring") \/ (HasEvent(events, "SC") /\ HasEvent(events, "LPS"))

\* What C14 states of the phase, given the retained events.
StatedPhase(events) ==
    /\ HasEvent(events, "Spring") =>
            PhaseIs("accumulation", IF HasEvent(events, "LPS") THEN "D" ELSE "C")
    /\ (~AccumulationEvidence(events) /\ HasEvent(events, "UpThrust")) =>
            PhaseIs("distribution", IF HasEvent(events, "LPSY") THEN "D" ELSE "C")
    /\ IsPhase(CurrentPhase) =>
            (CurrentPhase.tradingOpportunity <=> CurrentPhase.phase \in {"C", "D"})

\* C14: whenever the retained Wyckoff events contain a Spring, the schema is
\* accumulation and the phase is D if an LPS is also retained and C otherwise;
\* with no accumulation evidence and an UpThrust retained, the schema is
\* distribution with phase D if an LPSY is retained and C otherwise; and
\* tradingOpportunity is true exactly when the phase is C or D.
C14_ReversalDecidesPhase == ValidRange => StatedPhase(RetainedEvents)

\* A Spring was retained next to an UpThrust and an LPSY and no LPS: phase C of
\* accumulation.
C14_Witness ==
    /\ ValidRange
    /\ HasEvent(RetainedEvents, "Spring")
    /\ HasEvent(RetainedEvents, "UpThrust")
    /\ HasEvent(RetainedEvents, "LPSY")
    /\ PhaseIs("accumulation", "C")

\* Event k of the list follows an event of type `type` of the same list.
FollowsEvent(events, k, type) ==
    \E m \in 1..Len(events) : events[m].type = type /\ events[m].index < events[k].index

\* What C15 states of a list of retained events.
LastPointsFollowReversals(events) ==
    \A k \in 1..Len(events) :
        /\ events[k].type = "LPS" => FollowsEvent(events, k, "Spring")
        /\ events[k].type = "LPSY" => FollowsEvent(events, k, "UpThrust")

\* C15: in the retained Wyckoff event list every LPS event is preceded by a
\* Spring event of the same list with a strictly smaller candle index, and every
\* LPSY event by an UpThrust event of the same list with a strictly smaller index.
C15_LastPointFollowsReversal == ValidRange => LastPointsFollowReversals(RetainedEvents)

\* Candle i overlaps the zone formed by candle `formationIndex` by at least the
\* fraction of its height the profile asks for, half as much again for a zone
\* more than 50 candles old.
Penetrates(cs, formationIndex, i, profile) ==
    LET zone    == At(cs, formationIndex)
        candle  == At(cs, i)
        overlap == Min2(candle.h, zone.h) - Max2(candle.l, zone.l)
    IN  /\ overlap > 0
        /\ FracGeq(Frac(overlap, zone.h - zone.l),
                   IF Len(cs) - formationIndex > 50
                   THEN 3 * PenetrationThreshold(profile)
                   ELSE 2 * PenetrationThreshold(profile), 2000)

\* The candle is a reaction away from a zone of the kind: bullish for a demand
\* zone, bearish for a supply zone.
Reacts(candle, kind) ==
    IF kind = "demand" THEN candle.c > candle.o ELSE candle.c < candle.o

\* Some later candle penetrates the zone and is followed by a reacting candle.
TestedAsStated(cs, zone, kind, profile) ==
    \E i \in (zone.formationIndex + 1)..(Len(cs) - 2) :
        /\ Penetrates(cs, zone.formationIndex, i, profile)
        /\ Reacts(At(cs, i + 1), kind)

\* Each zone of the list that is marked tested was tested as stated.
TestedOnlyAsStated(zones, kind) ==
    \A k \in 1..Len(zones) :
        zones[k].tested => TestedAsStated(candles, zones[k], kind, Profile)

\* C16: under the balanced and swing profiles a demand or supply zone is marked
\* tested only if some later candle penetrates it by at least the profile's
\* fraction of the zone height (20% balanced, 25% swing, times 1.5 for a zone
\* more than 50 candles old) and that candle is followed by a reacting candle of
\* the expected direction: bullish for a demand zone, bearish for a supply zone.
C16_TestedNeedsReaction ==
    (IsAnalysis /\ Profile \in {"balanced", "swing"}) =>
        /\ TestedOnlyAsStated(result.demandZones, "demand")
        /\ TestedOnlyAsStated(result.supplyZones, "supply")

\* The zones the generic generator built its plans of one side from, in the order
\* of the numbers in the plans' titles.
ChosenZones(zones) ==
    Take(SortByPreference(ValidZones(zones, ProfileConfig(Profile)), ProfileConfig(Profile)),
         ProfileConfig(Profile).maxPlans)

\* No generic plan of the list was built from a tested zone of `zones`.
NoPlanFromTestedZone(plans, zones) ==
    \A k \in 1..Len(plans) :
        plans[k].title.source = "Plan" => ~ChosenZones(zones)[plans[k].title.tag[1]].tested

\* C17: under a profile whose testedWeight does not exceed the eligibility floor
\* (swing: 0.3 against 0.4) no generic buy or sell plan is built from a zone whose
\* tested flag is true, the one-time relaxation of the distance bound to 1.5 times
\* maxDistance included.
C17_NoPlanFromTestedZone ==
    (IsAnalysis /\ ProfileConfig(Profile).testedWeight <= TestedWeightFloor) =>
        /\ NoPlanFromTestedZone(result.buyPlans, result.demandZones)
        /\ NoPlanFromTestedZone(result.sellPlans, result.supplyZones)

\* The five Fibonacci levels of the range between majorLow and majorHigh, in
\* thousandths of the range.
StatedLevels == {236, 382, 500, 618, 786}

\* The zone's midpoint lies within 1% of one of the levels, each taken in milli.
NearLevel(zone, levels) ==
    \E permille \in levels :
        LET fibLevel == FibLevel(Min2(result.majorLow.price, result.majorHigh.price),
                                 Max2(result.majorLow.price, result.majorHigh.price), permille)
        IN  FracLeq(Frac(Abs(500 * (zone.high + zone.low) - fibLevel), fibLevel), 1, 100)

\* Each zone of the list has confluence = true exactly when it is near a level.
ConfluenceAsStated(zones) ==
    \A k \in 1..Len(zones) : zones[k].confluence <=> NearLevel(zones[k], StatedLevels)

\* C18: every returned zone (demand, supply, bullish FVG, bearish FVG) has
\* confluence = true exactly when its midpoint lies within 1% of one of the five
\* Fibonacci levels (23.6%, 38.2%, 50%, 61.8%, 78.6%) of the range between
\* majorLow and majorHigh.
C18_ConfluenceNearFibonacci ==
    IsAnalysis =>
        /\ ConfluenceAsStated(result.demandZones)
        /\ ConfluenceAsStated(result.supplyZones)
        /\ ConfluenceAsStated(result.bullishFVGs)
        /\ ConfluenceAsStated(result.bearishFVGs)

\* How many zones of a category of `found` zones the cap of 3 leaves out.
CutByCap(found) == Max2(0, found - 3)

\* The zones the cap leaves out over the four categories of the candidates.
ZonesCutByCap(zones) ==
    CutByCap(Len(zones.demandZones)) + CutByCap(Len(zones.supplyZones))
    + CutByCap(Len(zones.bullishFVGs)) + CutByCap(Len(zones.bearishFVGs))

\* C19: the debug field zonesFiltered equals the number of detected zones that
\* are not returned because of the cap of 3 per category, the sum over the four
\* categories of max(0, zones found in the category - 3), however the found zones
\* are spread over the categories.
C19_ZonesFilteredCountsTheCut ==
    (IsAnalysis /\ "debugInfo" \in DOMAIN result) =>
        result.debugInfo.zonesFiltered = ZonesCutByCap(Candidates)

\* The side of the plans of a schema: buy for accumulation, sell for distribution.
SideOf(type) == IF type = "accumulation" THEN "Buy" ELSE "Sell"

\* C20: wyckoffAnalysis.tradePlans is non-empty only when the current phase is C
\* or D; it then holds at most one plan, that plan has riskReward >= 1.0, and it
\* is a buy plan for an accumulation schema and a sell plan for a distribution
\* schema.
C20_WyckoffPlansOfPhase ==
    (IsAnalysis /\ result.bias = "SIDEWAYS" /\ Len(WyckoffPlans) > 0) =>
        /\ IsPhase(CurrentPhase)
        /\ CurrentPhase.phase \in {"C", "D"}
        /\ Len(WyckoffPlans) = 1
        /\ FracGeq(WyckoffPlans[1].riskReward, WyckoffMinRR, 1)
        /\ WyckoffPlans[1].title.source = "Wyckoff"
        /\ WyckoffPlans[1].title.side = SideOf(CurrentPhase.type)

\* A distribution in phase C has its one sell plan.
C20_Witness ==
    /\ ValidRange
    /\ PhaseIs("distribution", "C")
    /\ Len(WyckoffPlans) = 1
    /\ WyckoffPlans[1].title.side = "Sell"

\* The events pushed by the scan that are confident, repeats included.
ConfidentEvents ==
    SelectSeq(EventsFrom(candles, 10, result.majorHigh.price, result.majorLow.price),
              LAMBDA e : e.confidence >= MinEventConfidence)

\* What C21 states of the event list of a phase over n candles.
EventListAsStated(events, n) ==
    /\ \A k \in 1..Len(events) :
            /\ events[k].confidence >= 60
            /\ events[k].index >= 10
            /\ events[k].index <= n - 11
    /\ \A k \in 1..Len(events) : \A m \in (k + 1)..Len(events) :
            /\ events[k].index <= events[m].index
            /\ events[k].type = events[m].type => events[m].index - events[k].index > 5

\* C21: every event in a reported Wyckoff phase's event list has confidence >= 0.6
\* and a candle index in [10, n-11] (n = number of candles), the list is ordered
\* by index, and any two events of the same type in the list have indices more
\* than 5 candles apart.
C21_PhaseEventsRetained ==
    (ValidRange /\ IsPhase(CurrentPhase)) =>
        EventListAsStated(CurrentPhase.events, Len(candles))

\* A phase whose list holds two events of one type, after a repeat of a confident
\* event was dropped.
C21_Witness ==
    /\ ValidRange
    /\ IsPhase(CurrentPhase)
    /\ Len(CurrentPhase.events) < Len(ConfidentEvents)
    /\ \E k, m \in 1..Len(CurrentPhase.events) :
            k < m /\ CurrentPhase.events[k].type = CurrentPhase.events[m].type

\* The range of a SIDEWAYS analysis spans fewer than 20 candles or less than 2%
\* of the current price.
ShortOrNarrowRange ==
    /\ IsAnalysis
    /\ result.bias = "SIDEWAYS"
    /\ \/ Abs(result.majorHigh.index - result.majorLow.index) < 20
       \/ FracLt(Frac(100 * (result.majorHigh.price - result.majorLow.price),
                      result.currentPrice), 2, 1)

Ahead(a, b) ==
    \/ ZoneRank(a) > ZoneRank(b)
    \/ ZoneRank(a) = ZoneRank(b) /\ FracCmp(a.distance, b.distance) < 0

\* What C23 states of the list returned for the candidates of one category.
BestPrefix(returned, found) ==
    /\ Len(returned) = Min2(3, Len(found))
    /\ \A k \in 1..Len(returned) : \E m \in 1..Len(found) : found[m] = returned[k]
    /\ \A k \in 1..Len(returned) : \A m \in (k + 1)..Len(returned) :
            ~Ahead(returned[m], returned[k])
    /\ \A m \in 1..Len(found) :
            (\A k \in 1..Len(returned) : returned[k] # found[m]) =>
                \A k \in 1..Len(returned) : ~Ahead(found[m], returned[k])

\* The list returned for a category differs from the first three candidates in
\* scan order.
Reordered(returned, found) == Len(found) > 3 /\ returned # Take(found, 3)

\* C23: for each zone category the returned list is ordered by (strength rank
\* STRONG 3 / MODERATE 2 / WEAK 1, plus 2 when confluence is set) descending with
\* ties broken by smaller distance, and it is the best prefix of all candidates:
\* no candidate left out of the list ranks strictly ahead of a zone that is in it.
C23_ZonesAreBestPrefix ==
    IsAnalysis =>
        /\ BestPrefix(result.demandZones, Candidates.demandZones)
        /\ BestPrefix(result.supplyZones, Candidates.supplyZones)
        /\ BestPrefix(result.bullishFVGs, Candidates.bullishFVGs)
        /\ BestPrefix(result.bearishFVGs, Candidates.bearishFVGs)

\* More than three demand candidates, of which the three returned are not the
\* first three found, and a zone with confluence among those returned.
C23_Witness ==
    /\ IsAnalysis
    /\ Reordered(result.demandZones, Candidates.demandZones)
    /\ \E k \in 1..Len(result.demandZones) : result.demandZones[k].confluence
    /\ \E k \in 1..Len(Candidates.demandZones) : ~Candidates.demandZones[k].confluence

\* C24: in every successful analysis probability is 87 when lastEvent is BOS, 74
\* when lastEvent is CHoCH and 52 when bias is SIDEWAYS; bias is SIDEWAYS exactly
\* when lastEvent is empty; and the defensive value 60 never appears in any result.
C24_ProbabilityLookup ==
    IsAnalysis =>
        /\ result.lastEvent = "BOS" => result.probability = 87
        /\ result.lastEvent = "CHoCH" => result.probability = 74
        /\ result.bias = "SIDEWAYS" => result.probability = 52
        /\ result.bias = "SIDEWAYS" <=> result.lastEvent = ""
        /\ result.probability # 60

\* A change of character to a bearish bias was analysed.
C24_Witness ==
    /\ IsAnalysis
    /\ result.lastEvent = "CHoCH"
    /\ result.bias = "BEARISH"
    /\ result.probability = 74

\* The Fibonacci level of the range of the result, in milli, by its name.
StatedLevel(name) ==
    LET rangeStart == Min2(result.majorLow.price, result.majorHigh.price)
        rangeEnd   == Max2(result.majorLow.price, result.majorHigh.price)
        permille   == CASE name = "23.6%" -> 236 [] name = "38.2%" -> 382
                        [] name = "50%" -> 500 [] name = "61.8%" -> 618
                        [] name = "78.6%" -> 786
    IN  1000 * rangeStart + (rangeEnd - rangeStart) * permille

\* The midpoint of the zone lies within 2% of the level (in milli).
WithinTwoPercent(zone, level) ==
    FracLeq(Frac(Abs(500 * (zone.high + zone.low) - level), level), 2, 100)

\* What C25 states of a list of confluences, given the returned demand and
\* supply zones.
ConfluencesAsStated(confluences, zones) ==
    /\ Len(confluences) <= 5
    /\ \A k \in 1..Len(confluences) : \A m \in (k + 1)..Len(confluences) :
            /\ ~(confluences[k].type = "historical_sr" /\ confluences[m].type = "fibonacci")
            /\ (confluences[k].type = "fibonacci" /\ confluences[m].type = "fibonacci") =>
                    confluences[k].description # confluences[m].description
    /\ \A k \in 1..Len(confluences) :
            confluences[k].type = "fibonacci" =>
                /\ confluences[k].level = StatedLevel(confluences[k].description)
                /\ \E z \in 1..Len(zones) : WithinTwoPercent(zones[z], confluences[k].level)

\* C25: the confluences list of every successful analysis has at most 5 entries,
\* and every entry of type fibonacci appears before every entry of type
\* historical_sr; there is at most one fibonacci entry per Fibonacci level,
\* present only when at least one returned demand or supply zone has its
\* midpoint within 2% of that level.
C25_ConfluencesCappedAndOrdered ==
    IsAnalysis =>
        ConfluencesAsStated(result.confluences, result.demandZones \o result.supplyZones)

\* Five confluences, of both types, with a Fibonacci level left out for want of
\* a zone near it.
C25_Witness ==
    /\ IsAnalysis
    /\ Len(result.confluences) = 5
    /\ result.confluences[1].type = "fibonacci"
    /\ result.confluences[5].type = "historical_sr"
    /\ \E name \in {"23.6%", "38.2%", "50%", "61.8%", "78.6%"} :
            \A k \in 1..5 : result.confluences[k].description # name

\* Every zone of the list is marked tested.
AllTested(zones) == \A k \in 1..Len(zones) : zones[k].tested

\* No candle behind the third candle of the formation touches the gap.
LeftOpen(zone) ==
    \A i \in (zone.formationIndex + 2)..(Len(candles) - 1) :
        At(candles, i).l > zone.high \/ At(candles, i).h < zone.low

PricesOrdered(plan) ==
    IF plan.title.side = "Buy"
    THEN plan.stop < plan.entry /\ plan.entry < plan.target
    ELSE plan.target < plan.entry /\ plan.entry < plan.stop

\* Entry and stop of a generic plan are the boundaries of the zone it was built
\* from, the zone at the plan's number among those chosen from `zones`.
OnZoneBoundaries(plan, zones) ==
    plan.title.source = "Plan" =>
        LET zone == ChosenZones(zones)[plan.title.tag[1]]
        IN  IF plan.title.side = "Buy"
            THEN plan.entry = 1000 * zone.high /\ plan.stop = 1000 * zone.low
            ELSE plan.entry = 1000 * zone.low /\ plan.stop = 1000 * zone.high

\* The generic plans of the result are ordered and lie on their zones.
GenericPlansOrdered ==
    /\ \A k \in 1..Len(result.buyPlans) :
            result.buyPlans[k].title.source = "Plan" =>
                /\ PricesOrdered(result.buyPlans[k])
                /\ OnZoneBoundaries(result.buyPlans[k], result.demandZones)
    /\ \A k \in 1..Len(result.sellPlans) :
            result.sellPlans[k].title.source = "Plan" =>
                /\ PricesOrdered(result.sellPlans[k])
                /\ OnZoneBoundaries(result.sellPlans[k], result.supplyZones)

\* C27: for every emitted plan the prices are strictly ordered by direction: a
\* buy plan (generic or Wyckoff) has stop < entry < target and a sell plan has
\* target < entry < stop; for generic plans entry and stop are the two
\* boundaries of the source zone (buy: entry = zone.high, stop = zone.low; sell:
\* entry = zone.low, stop = zone.high).
C27_PlanPricesOrdered ==
    IsAnalysis =>
        /\ \A k \in 1..Len(Plans) : PricesOrdered(Plans[k])
        /\ GenericPlansOrdered

\* C28: plans are only emitted with the bias or in a range: whenever bias is
\* BULLISH sellPlans is empty, and whenever bias is BEARISH buyPlans is empty,
\* regardless of which zones were detected; only a SIDEWAYS analysis can carry
\* plans on both sides.
C28_PlansFollowTheBias ==
    IsAnalysis =>
        /\ result.bias = "BULLISH" => Len(result.sellPlans) = 0
        /\ result.bias = "BEARISH" => Len(result.buyPlans) = 0
        /\ (Len(result.buyPlans) > 0 /\ Len(result.sellPlans) > 0) => result.bias = "SIDEWAYS"

\* A BEARISH analysis with sell plans and with demand zones found, none of which
\* became a buy plan.
C28_Witness ==
    /\ IsAnalysis
    /\ result.bias = "BEARISH"
    /\ Len(result.sellPlans) > 0
    /\ Len(result.demandZones) > 0
    /\ Len(result.buyPlans) = 0

\* The six types of event, in the order of the tests of the scan.
EventTypes == <<"SC", "BC", "Spring", "UpThrust", "LPS", "LPSY">>

\* A list of retained events with one event of each of the given types.
EventsOfTypes(types) ==
    LET chosen == SelectSeq(EventTypes, LAMBDA type : type \in types)
    IN  [k \in 1..Len(chosen) |->
            [type |-> chosen[k], price |-> 1400, index |-> 10 + 6 * k, volume |-> 10,
             confidence |-> 60]]

\* The phase is none, or one of A, C and D.
NeverBOrE(phase) == IsPhase(phase) => phase.phase \in {"A", "C", "D"}

StatedStrength(event) ==
    IF event = "BOS" THEN "STRONG" ELSE IF event = "CHoCH" THEN "MODERATE" ELSE "WEAK"

\* C30: the structure strength of a successful analysis is fully determined by
\* its last event, whatever the number of swings: BOS always gives STRONG, CHoCH
\* always gives MODERATE and a sideways structure always gives WEAK, so the
\* swing-count bonus (+1 for >= 8 swings, +0.5 for >= 6) never moves a result
\* into another strength band.
C30_StrengthFollowsLastEvent ==
    /\ IsAnalysis => result.strength = StatedStrength(result.lastEvent)
    /\ Returned =>
            \A event \in {"BOS", "CHoCH", ""} : \A swingCount \in 4..12 :
                \A bias \in (IF event = "" THEN {"SIDEWAYS"} ELSE {"BULLISH", "BEARISH"}) :
                    calculateStrength(calculateProbability(bias, event), event, swingCount)
                        = StatedStrength(event)

\* A change of character found among eight swings or more, with the full bonus,
\* is still MODERATE.
C30_Witness ==
    /\ IsAnalysis
    /\ result.lastEvent = "CHoCH"
    /\ Len(DetectedSwings) >= 8
    /\ result.strength = "MODERATE"

====
